---- MODULE Spec2Model ----
(***************************************************************************)
(* A model of the gbemu emulator core (package emulator): the tick loop of *)
(* Emulator.Run, the CPU's interrupt dispatch and IME state machine, the   *)
(* memory bus, and the Timer, Serial, Video and Interrupt controllers.     *)
(*                                                                         *)
(* The program the CPU runs is not fixed: every fetch draws the decoded    *)
(* instruction from Ops, which stands for ROM contents that are arbitrary. *)
(* Register values a program computes (the byte it stores, a jump target)  *)
(* are drawn from small sets in the same way.                              *)
(***************************************************************************)
EXTENDS Integers, Sequences, FiniteSets, TLC

VARIABLES
    cpu,        \* cpu struct: ProgramCounter, PowerOn, lowPowerMode, Interrupts
    regs,       \* registers: SP and the carry flag; in RegSpec, Data[0..3]
    ram,        \* the modelled cells of HRAM (bus-owned RAM pages)
    interrupt,  \* interruptController: interruptFlag, interruptEnabled
    timer,      \* timerController
    serial,     \* serialController
    joypad,     \* joypadController (its interrupt source only)
    video,      \* videoController
    rom,        \* rom: the bank registers of the cartridge's MBC
    memory,     \* memory: IsBootROMLoaded, and the images its two ROMs hold
    frames,     \* the heap of frame buffers allocated by clearFrame
    run,        \* Emulator.Run: its arguments, its position, cpuIdleCycles
    ctx,        \* the context passed to Run and the frameSync ticker
    host,       \* the frame consumer on the other end of FrameChan
    obs         \* observations of the current tick and of the last CPU step

vars == <<cpu, regs, ram, interrupt, timer, serial, joypad, video, rom, memory,
          frames, run, ctx, host, obs>>

----------------------------------------------------------------------------
(* Bounds of the model *)

\* Number of ticks of the Run loop explored from an initial state.
MaxTicks == 9

\* Number of instructions the CPU fetches in a run.
MaxFetches == 4

----------------------------------------------------------------------------
(* math.go *)

Bit(b, n) == (b \div (2 ^ n)) % 2

readBitN(b, offset) == Bit(b, offset) = 1

writeBitN(b, offset, v) ==
    IF v THEN (IF readBitN(b, offset) THEN b ELSE b + 2 ^ offset)
         ELSE (IF readBitN(b, offset) THEN b - 2 ^ offset ELSE b)

RECURSIVE copyBits(_, _, _)
copyBits(to, from, offsets) ==
    IF offsets = <<>> THEN to
    ELSE copyBits(writeBitN(to, Head(offsets), readBitN(from, Head(offsets))),
                  from, Tail(offsets))

\* b1 & b2 on bytes
And8(b1, b2) ==
    LET f[i \in 0..8] == IF i = 8 THEN 0
                         ELSE Bit(b1, i) * Bit(b2, i) * (2 ^ i) + f[i + 1]
    IN  f[0]

\* b1 | b2 on bytes
Or8(b1, b2) == b1 + b2 - And8(b1, b2)

\* uint16 arithmetic wraps
U16(n) == (n + 65536) % 65536
U8(n) == n % 256

----------------------------------------------------------------------------
(* The cells of the address space that the model keeps.  A CPU step that     *)
(* would touch any other address is outside the model and is not taken.      *)

\* High RAM just below the post-boot stack pointer 0xFFFE.
HramCells == {\hFFFA, \hFFFB, \hFFFC, \hFFFD, \hFFFE}

\* VRAM: one byte pair of tile 0, the first tile map entry, and the top two
\* bytes of VRAM, where a stack pointer of 0xA000 pushes.
VramCells == {\h8000, \h8001, \h9800, \h9FFE, \h9FFF}

\* OAM: the first and the last byte of the sprite attribute table.
OamCells == {\hFE00, \hFE9F}

SerialRegs == {\hFF01, \hFF02}
TimerRegs == {\hFF04, \hFF05, \hFF06, \hFF07}
InterruptRegs == {\hFF0F, \hFFFF}
VideoRegs == {\hFF40, \hFF41, \hFF44, \hFF45, \hFF47}

Mapped(address) ==
    address \in HramCells \cup VramCells \cup SerialRegs \cup TimerRegs
                \cup InterruptRegs \cup VideoRegs

\* Addresses an opcode can be fetched from without the bus faulting: ROM,
\* VRAM, external and work RAM, high RAM.
Executable(address) ==
    \/ address \in 0 .. \hDFFF
    \/ address \in \hFF80 .. \hFFFE

----------------------------------------------------------------------------
(* memory.go and the Read8/Write8 of each controller.  m is the machine:     *)
(* [cpu, regs, ram, interrupt, timer, serial, video].                        *)

serialWrite8(s, address, v) ==
    IF address = \hFF01 THEN [s EXCEPT !.SB = v] ELSE [s EXCEPT !.SC = v]

\* Write8 whose write to TAC leaves incrementalTimer as it is
timerWrite8KeepsTimer(t, address, v) ==
    CASE address = \hFF04 -> [t EXCEPT !.DIV = 0, !.incrementalDivider = 0]
      [] address = \hFF05 -> [t EXCEPT !.TIMA = v]
      [] address = \hFF06 -> [t EXCEPT !.TMA = v]
      [] address = \hFF07 -> [t EXCEPT !.TAC = v]

\* Write8 whose write to DIV leaves incrementalDivider as it is
timerWrite8KeepsDivider(t, address, v) ==
    CASE address = \hFF04 -> [t EXCEPT !.DIV = 0]
      [] address = \hFF05 -> [t EXCEPT !.TIMA = v]
      [] address = \hFF06 -> [t EXCEPT !.TMA = v]
      [] address = \hFF07 -> [t EXCEPT !.TAC = v, !.incrementalTimer = 0]

timerWrite8(t, address, v) ==
    CASE address = \hFF04 -> [t EXCEPT !.DIV = 0, !.incrementalDivider = 0]
      [] address = \hFF05 -> [t EXCEPT !.TIMA = v]
      [] address = \hFF06 -> [t EXCEPT !.TMA = v]
      [] address = \hFF07 -> [t EXCEPT !.TAC = v, !.incrementalTimer = 0]

interruptWrite8(i, address, v) ==
    IF address = \hFF0F THEN [i EXCEPT !.interruptFlag = v]
                        ELSE [i EXCEPT !.interruptEnabled = v]

isOAMAddress(address) == \hFE00 <= address /\ address <= \hFE9F

\* Write8 that stores the byte whatever the mode of the PPU
videoWrite8Ungated(s, address, v) ==
    CASE address = \hFF40 -> [s EXCEPT !.LCDC = v]
      [] address = \hFF41 -> [s EXCEPT !.STAT = copyBits(v, s.STAT, <<0, 1, 2>>)]
      [] address = \hFF44 -> s
      [] address = \hFF42 -> [s EXCEPT !.SCY = v]
      [] address = \hFF45 -> [s EXCEPT !.LYC = v]
      [] address = \hFF47 -> [s EXCEPT !.BGP = v]
      [] isOAMAddress(address) -> [s EXCEPT !.oam[address] = v]
      [] address \in VramCells -> [s EXCEPT !.vram[address] = v]

\* Write8 that stores the whole byte in STAT
videoWrite8WholeStatus(s, address, v) ==
    CASE address = \hFF40 -> [s EXCEPT !.LCDC = v]
      [] address = \hFF41 -> [s EXCEPT !.STAT = v]
      [] address = \hFF44 -> s
      [] address = \hFF42 -> [s EXCEPT !.SCY = v]
      [] address = \hFF45 -> [s EXCEPT !.LYC = v]
      [] address = \hFF47 -> [s EXCEPT !.BGP = v]
      [] isOAMAddress(address) ->
            IF s.oamAccessible THEN [s EXCEPT !.oam[address] = v] ELSE s
      [] address \in VramCells ->
            IF s.vramAccessible THEN [s EXCEPT !.vram[address] = v] ELSE s

videoWrite8(s, address, v) ==
    CASE address = \hFF40 -> [s EXCEPT !.LCDC = v]
      [] address = \hFF41 -> [s EXCEPT !.STAT = copyBits(v, s.STAT, <<0, 1, 2>>)]
      [] address = \hFF44 -> s
      [] address = \hFF42 -> [s EXCEPT !.SCY = v]
      [] address = \hFF45 -> [s EXCEPT !.LYC = v]
      [] address = \hFF47 -> [s EXCEPT !.BGP = v]
      [] isOAMAddress(address) ->
            IF s.oamAccessible THEN [s EXCEPT !.oam[address] = v] ELSE s
      [] address \in VramCells ->
            IF s.vramAccessible THEN [s EXCEPT !.vram[address] = v] ELSE s

\* Write8 that stores nothing
Write8Dropped(m, address, v) == m

Write8(m, address, v) ==
    CASE address \in HramCells -> [m EXCEPT !.ram[address] = v]
      [] address \in SerialRegs -> [m EXCEPT !.serial = serialWrite8(m.serial, address, v)]
      [] address \in TimerRegs -> [m EXCEPT !.timer = timerWrite8(m.timer, address, v)]
      [] address \in InterruptRegs ->
            [m EXCEPT !.interrupt = interruptWrite8(m.interrupt, address, v)]
      [] address \in VideoRegs \cup VramCells ->
            [m EXCEPT !.video = videoWrite8(m.video, address, v)]

videoRead8(s, address) ==
    CASE address = \hFF40 -> s.LCDC
      [] address = \hFF41 -> s.STAT
      [] address = \hFF44 -> s.LY
      [] address = \hFF42 -> s.SCY
      [] address = \hFF45 -> s.LYC
      [] address = \hFF47 -> s.BGP
      [] isOAMAddress(address) -> s.oam[address]
      [] address \in VramCells -> s.vram[address]

Read8(m, address) ==
    CASE address \in HramCells -> m.ram[address]
      [] address = \hFF01 -> m.serial.SB
      [] address = \hFF02 -> m.serial.SC
      [] address = \hFF04 -> m.timer.DIV
      [] address = \hFF05 -> m.timer.TIMA
      [] address = \hFF06 -> m.timer.TMA
      [] address = \hFF07 -> m.timer.TAC
      [] address = \hFF0F -> m.interrupt.interruptFlag
      [] address = \hFFFF -> m.interrupt.interruptEnabled
      [] address \in VideoRegs \cup VramCells -> videoRead8(m.video, address)

\* little endian: the low byte first
Write16(m, address, v) ==
    Write8(Write8(m, address, v % 256), U16(address + 1), v \div 256)

Read16(m, address) ==
    Read8(m, address) + 256 * Read8(m, U16(address + 1))

----------------------------------------------------------------------------
(* registers.go: Data as a function of the byte's index *)

registerAF == 0
registerBC == 2
registerA == 1
registerB == 3
registerC == 2

\* the bit of F that holds each flag
flags == [Z |-> 7, N |-> 6, H |-> 5, C |-> 4]

\* v1 & v2 on 16-bit words
And16(v1, v2) == And8(v1 % 256, v2 % 256) + 256 * And8(v1 \div 256, v2 \div 256)

newRegisters == [i \in 0 .. 3 |-> 0]

\* little endian
registersRead16(d, register) == d[register] + 256 * d[register + 1]

\* Write16 storing every bit of AF
registersWrite16Whole(d, register, v) ==
    [d EXCEPT ![register] = v % 256, ![register + 1] = v \div 256]

registersWrite16(d, register, v) ==
    LET w == IF register = registerAF THEN And16(v, \hFFF0) ELSE v
    IN  [d EXCEPT ![register] = w % 256, ![register + 1] = w \div 256]

registersWrite1(d, flag, v) == [d EXCEPT ![0] = writeBitN(d[0], flag, v)]

----------------------------------------------------------------------------
(* cpu.go *)

interruptsDisabled == 0
interruptsEnabled == 1
interruptsEnabledAfterCycle == 2
interruptsEnabledAfterNextCycle == 3

interruptAddresses == <<\h0040, \h0048, \h0050, \h0058, \h0060>>

\* Size and Cycles of the decoded instructions the model fetches, in machine
\* cycles, the cycle count of a taken conditional last.
instructions ==
    [NOP     |-> [Size |-> 1, Cycles |-> <<1>>],
     EI      |-> [Size |-> 1, Cycles |-> <<1>>],
     DI      |-> [Size |-> 1, Cycles |-> <<1>>],
     HALT    |-> [Size |-> 1, Cycles |-> <<1>>],
     STOP    |-> [Size |-> 2, Cycles |-> <<1>>],
     SCF     |-> [Size |-> 1, Cycles |-> <<1>>],
     CCF     |-> [Size |-> 1, Cycles |-> <<1>>],
     RETI    |-> [Size |-> 1, Cycles |-> <<4>>],
     RET     |-> [Size |-> 1, Cycles |-> <<4>>],
     RETcc   |-> [Size |-> 1, Cycles |-> <<2, 5>>],
     JP      |-> [Size |-> 3, Cycles |-> <<4>>],
     JPcc    |-> [Size |-> 3, Cycles |-> <<3, 4>>],
     JRcc    |-> [Size |-> 2, Cycles |-> <<2, 3>>],
     CALLcc  |-> [Size |-> 3, Cycles |-> <<3, 6>>],
     LDH     |-> [Size |-> 2, Cycles |-> <<3>>]]

\* A decoded instruction with its operands resolved: cond is the flag operand
\* of a conditional ("" when there is none), arg the immediate operand, v the
\* value of register A for a store.
Inst(entry, mnemonic, cond, arg, v) ==
    [Mnemonic |-> mnemonic, Size |-> instructions[entry].Size,
     Cycles |-> instructions[entry].Cycles, cond |-> cond, arg |-> arg, v |-> v]

isFlagSet(m, cond) == IF cond = "NC" THEN ~m.regs.flagC ELSE m.regs.flagC

\* stackPush moving the stack pointer without storing the value
stackPushUnstored(m, v) == [m EXCEPT !.regs.SP = U16(m.regs.SP - 2)]

\* stackPush storing the high byte at the lower address
stackPushHighFirst(m, v) ==
    LET sp == m.regs.SP
    IN  Write16([m EXCEPT !.regs.SP = U16(sp - 2)], U16(sp - 2),
                256 * (v % 256) + v \div 256)

\* stackPop leaving the stack pointer where it is
stackPopInPlace(m) == [m |-> m, v |-> Read16(m, m.regs.SP)]

stackPush(m, v) ==
    LET sp == m.regs.SP
    IN  Write16([m EXCEPT !.regs.SP = U16(sp - 2)], U16(sp - 2), v)

\* the machine after the pop, and the value popped
stackPop(m) ==
    LET sp == m.regs.SP
    IN  [m |-> [m EXCEPT !.regs.SP = U16(sp + 2)], v |-> Read16(m, sp)]

pushMapped(m) == Mapped(U16(m.regs.SP - 2)) /\ Mapped(U16(m.regs.SP - 1))
popMapped(m) == Mapped(m.regs.SP) /\ Mapped(U16(m.regs.SP + 1))

offsetAddress(base, offset) == U16(base + offset)

\* shouldWakeFromLowPowerMode waking only a CPU that accepts interrupts
shouldWakeWhenEnabled(m) ==
    /\ m.cpu.Interrupts = interruptsEnabled
    /\ And8(m.interrupt.interruptEnabled, m.interrupt.interruptFlag) > 0

shouldWakeFromLowPowerMode(m) ==
    And8(m.interrupt.interruptEnabled, m.interrupt.interruptFlag) > 0

\* readAndClearInterrupt servicing the highest enabled and pending source
readAndClearHighest(m) ==
    LET interruptEnable == Read8(m, \hFFFF)
        interruptPending == Read8(m, \hFF0F)
        hits == {i \in 0 .. 4 : readBitN(interruptEnable, i) /\ readBitN(interruptPending, i)}
        last == CHOOSE i \in hits : \A j \in hits : i >= j
    IN  IF m.cpu.Interrupts # interruptsEnabled \/ hits = {}
          THEN [ok |-> FALSE, address |-> 0, m |-> m]
        ELSE [ok |-> TRUE, address |-> interruptAddresses[last + 1],
              m |-> Write8(m, \hFF0F, writeBitN(interruptPending, last, FALSE))]

\* [ok, address, m]: the vector of the interrupt to service, its IF bit cleared
readAndClearInterrupt(m) ==
    LET interruptEnable == Read8(m, \hFFFF)
        interruptPending == Read8(m, \hFF0F)
        hits == {i \in 0 .. 4 : readBitN(interruptEnable, i) /\ readBitN(interruptPending, i)}
        first == CHOOSE i \in hits : \A j \in hits : i <= j
    IN  IF m.cpu.Interrupts # interruptsEnabled
          THEN [ok |-> FALSE, address |-> 0, m |-> m]
        ELSE IF And8(interruptEnable, interruptPending) = 0 \/ hits = {}
          THEN [ok |-> FALSE, address |-> 0, m |-> m]
        ELSE [ok |-> TRUE, address |-> interruptAddresses[first + 1],
              m |-> Write8(m, \hFF0F, writeBitN(interruptPending, first, FALSE))]

\* [m, actionTaken]
execute(m, inst) ==
    LET jump == inst.cond = "" \/ isFlagSet(m, inst.cond)
        skip == [m |-> m, actionTaken |-> FALSE]
        popped == stackPop(m)
    IN  CASE inst.Mnemonic = "NOP" -> skip
          [] inst.Mnemonic = "LD8" ->
                [m |-> Write8(m, \hFF00 + inst.arg, inst.v), actionTaken |-> FALSE]
          [] inst.Mnemonic = "JP" ->
                IF jump THEN [m |-> [m EXCEPT !.cpu.ProgramCounter = inst.arg],
                              actionTaken |-> TRUE]
                        ELSE skip
          [] inst.Mnemonic = "JR" ->
                IF jump THEN [m |-> [m EXCEPT !.cpu.ProgramCounter =
                                        offsetAddress(m.cpu.ProgramCounter, inst.arg)],
                              actionTaken |-> TRUE]
                        ELSE skip
          [] inst.Mnemonic = "CALL" ->
                IF jump THEN [m |-> [stackPush(m, m.cpu.ProgramCounter)
                                        EXCEPT !.cpu.ProgramCounter = inst.arg],
                              actionTaken |-> TRUE]
                        ELSE skip
          [] inst.Mnemonic = "RET" ->
                IF jump THEN [m |-> [popped.m EXCEPT !.cpu.ProgramCounter = popped.v],
                              actionTaken |-> TRUE]
                        ELSE skip
          [] inst.Mnemonic = "RETI" ->
                [m |-> [popped.m EXCEPT !.cpu.ProgramCounter = popped.v,
                                        !.cpu.Interrupts = interruptsEnabledAfterCycle],
                 actionTaken |-> FALSE]
          [] inst.Mnemonic = "SCF" -> [m |-> [m EXCEPT !.regs.flagC = TRUE], actionTaken |-> FALSE]
          [] inst.Mnemonic = "CCF" ->
                [m |-> [m EXCEPT !.regs.flagC = ~m.regs.flagC], actionTaken |-> FALSE]
          [] inst.Mnemonic = "DI" ->
                [m |-> [m EXCEPT !.cpu.Interrupts = interruptsDisabled], actionTaken |-> FALSE]
          [] inst.Mnemonic = "EI" ->
                [m |-> [m EXCEPT !.cpu.Interrupts = interruptsEnabledAfterNextCycle],
                 actionTaken |-> FALSE]
          [] inst.Mnemonic = "HALT" ->
                [m |-> [m EXCEPT !.cpu.lowPowerMode = TRUE], actionTaken |-> FALSE]
          [] inst.Mnemonic = "STOP" ->
                [m |-> [m EXCEPT !.cpu.PowerOn = FALSE], actionTaken |-> FALSE]

\* the cycle count execute returns
executeCycles(inst, actionTaken) ==
    IF actionTaken /\ Len(inst.Cycles) > 1 THEN inst.Cycles[2] ELSE inst.Cycles[1]

\* the end of cpu.Cycle enabling interrupts at once after EI
advanceIMEAtOnce(ime) ==
    IF ime \in {interruptsEnabledAfterNextCycle, interruptsEnabledAfterCycle}
      THEN interruptsEnabled ELSE ime

\* the end of cpu.Cycle enabling interrupts whatever the instruction was
advanceIMEAlways(ime) ==
    IF ime = interruptsEnabledAfterNextCycle THEN interruptsEnabledAfterCycle
    ELSE interruptsEnabled

\* the deferred enabling of interrupts at the end of cpu.Cycle
advanceIME(ime) ==
    IF ime = interruptsEnabledAfterNextCycle THEN interruptsEnabledAfterCycle
    ELSE IF ime = interruptsEnabledAfterCycle THEN interruptsEnabled
    ELSE ime

\* Does the step execute touch only mapped addresses?
executeMapped(m, inst) ==
    LET jump == inst.cond = "" \/ isFlagSet(m, inst.cond)
    IN  CASE inst.Mnemonic = "CALL" -> jump => pushMapped(m)
          [] inst.Mnemonic = "RET" -> jump => popMapped(m)
          [] inst.Mnemonic = "RETI" -> popMapped(m)
          [] inst.Mnemonic = "LD8" -> Mapped(\hFF00 + inst.arg)
          [] OTHER -> TRUE

\* Does memory.Write8 panic: a page or an entry of the 0xFF page that is nil,
\* or the OAM DMA register.
writePanics(address, v) ==
    IF address = \hFF50 /\ v = \h01 THEN FALSE
    ELSE \/ address \in \hE000 .. \hFEFF
         \/ address \in \hFF00 .. \hFFFF
              /\ address % 256 \in {\h00, \h03} \cup (\h08 .. \h0E) \cup (\h4C .. \h7F)
         \/ address = \hFF46

\* Does execute panic on the instruction: ILLEGAL, or a store the bus refuses
executePanics(inst) ==
    \/ inst.Mnemonic = "ILLEGAL"
    \/ inst.Mnemonic = "LD8" /\ writePanics(inst.address, inst.v)

\* What cpu.Cycle does before it fetches: "wait" in low power mode,
\* "interrupt" when it services one, "fetch" otherwise.
cycleKind(m) ==
    LET woken == [m EXCEPT !.cpu.lowPowerMode = FALSE]
    IN  IF m.cpu.lowPowerMode /\ ~shouldWakeFromLowPowerMode(m) THEN "wait"
        ELSE IF readAndClearInterrupt(woken).ok THEN "interrupt"
        ELSE "fetch"

\* Cycle that services an interrupt and leaves lowPowerMode as it found it
CycleStaysHalted(m, inst) ==
    LET woken == [m EXCEPT !.cpu.lowPowerMode = FALSE]
        r == readAndClearInterrupt(m)
        fetched == [woken EXCEPT !.cpu.ProgramCounter = U16(@ + inst.Size)]
        e == execute(fetched, inst)
    IN  CASE cycleKind(m) = "wait" -> [m |-> m, cycles |-> 1]
          [] cycleKind(m) = "interrupt" ->
                [m |-> [stackPush([r.m EXCEPT !.cpu.Interrupts = interruptsDisabled],
                                  r.m.cpu.ProgramCounter)
                            EXCEPT !.cpu.ProgramCounter = r.address],
                 cycles |-> 5]
          [] cycleKind(m) = "fetch" ->
                [m |-> [e.m EXCEPT !.cpu.Interrupts = advanceIME(@)],
                 cycles |-> executeCycles(inst, e.actionTaken)]

\* cpu.Cycle, inst being the instruction at ProgramCounter: [m, cycles]
Cycle(m, inst) ==
    LET woken == [m EXCEPT !.cpu.lowPowerMode = FALSE]
        r == readAndClearInterrupt(woken)
        fetched == [woken EXCEPT !.cpu.ProgramCounter = U16(@ + inst.Size)]
        e == execute(fetched, inst)
    IN  CASE cycleKind(m) = "wait" -> [m |-> m, cycles |-> 1]
          [] cycleKind(m) = "interrupt" ->
                [m |-> [stackPush([r.m EXCEPT !.cpu.Interrupts = interruptsDisabled],
                                  r.m.cpu.ProgramCounter)
                            EXCEPT !.cpu.ProgramCounter = r.address],
                 cycles |-> 5]
          [] cycleKind(m) = "fetch" ->
                [m |-> [e.m EXCEPT !.cpu.Interrupts = advanceIME(@)],
                 cycles |-> executeCycles(inst, e.actionTaken)]

----------------------------------------------------------------------------
(* timer.go, serial.go, video.go: what one Cycle does to the controller *)

\* Does this Cycle overflow TIMA, and so call Interrupt.Set()?
timerOverflows(t) ==
    LET mode == t.TAC % 4
        step == CASE mode = 0 -> 1 [] mode = 1 -> 64 [] mode = 2 -> 16 [] mode = 3 -> 4
    IN  readBitN(t.TAC, 2) /\ t.incrementalTimer + step >= 256 /\ U8(t.TIMA + 1) = 0

timerCycle(t) ==
    LET divided == IF t.incrementalDivider + 1 >= 256
                     THEN [t EXCEPT !.incrementalDivider = 0, !.DIV = U8(t.DIV + 1)]
                     ELSE [t EXCEPT !.incrementalDivider = t.incrementalDivider + 1]
        mode == divided.TAC % 4
        step == CASE mode = 0 -> 1 [] mode = 1 -> 64 [] mode = 2 -> 16 [] mode = 3 -> 4
        counted == divided.incrementalTimer + step
    IN  IF ~readBitN(divided.TAC, 2) THEN divided
        ELSE IF counted < 256 THEN [divided EXCEPT !.incrementalTimer = counted]
        ELSE IF U8(divided.TIMA + 1) = 0
          THEN [divided EXCEPT !.incrementalTimer = 0, !.TIMA = divided.TMA,
                               !.Interrupt = TRUE]
        ELSE [divided EXCEPT !.incrementalTimer = 0, !.TIMA = U8(divided.TIMA + 1)]

serialTransferCycles == 1000

\* Does this Cycle finish the transfer, and so call Interrupt.Set()?
serialCompletes(s) ==
    readBitN(s.SC, 0) /\ readBitN(s.SC, 7) /\ s.transferTicks + 1 >= serialTransferCycles

\* The bytes this Cycle hands to s.Callback, which the emulator sets.
serialCallback(s) == IF serialCompletes(s) THEN <<s.SB>> ELSE <<>>

\* Cycle that leaves the transfer start flag set when the transfer is done
serialCycleKeepsStart(s) ==
    IF ~readBitN(s.SC, 0) \/ ~readBitN(s.SC, 7) THEN s
    ELSE IF s.transferTicks + 1 < serialTransferCycles
      THEN [s EXCEPT !.transferTicks = s.transferTicks + 1]
    ELSE [s EXCEPT !.transferTicks = 0, !.SB = \hFF, !.Interrupt = TRUE]

serialCycle(s) ==
    IF ~readBitN(s.SC, 0) \/ ~readBitN(s.SC, 7) THEN s
    ELSE IF s.transferTicks + 1 < serialTransferCycles
      THEN [s EXCEPT !.transferTicks = s.transferTicks + 1]
    ELSE [s EXCEPT !.transferTicks = 0, !.SB = \hFF,
                   !.SC = writeBitN(s.SC, 7, FALSE), !.Interrupt = TRUE]

cyclesPerLine == 456
linesPerFrame == 154

\* ((platter >> 2) * colorNum) & 0x03, as Go parses platter >> 2 * colorNum
lookupShadeInPlatter(platter, colorNum) == ((platter \div 4) * colorNum) % 4

\* calculateShade for the pixel at line 0, dot 0 of the screen, with the screen
\* at the origin of the background, tile map 0x9800 naming tile 0 in 8000
\* addressing, and sprites switched off.
calculateShade(s) ==
    LET colorNum == Bit(s.vram[\h8000], 7) + 2 * Bit(s.vram[\h8001], 7)
    IN  IF ~readBitN(s.LCDC, 0) THEN 0
        ELSE lookupShadeInPlatter(s.BGP, colorNum)

\* Does this Cycle process line 144, dot 0, and so call InterruptVBlank.Set()?
entersVBlank(s) ==
    readBitN(s.LCDC, 7) /\ s.nextCycle = 144 * cyclesPerLine

\* The mode 1 request made at dot 0 of every line of the vertical blank
requestsLCDCStatusEveryLine(s) ==
    LET line == s.nextCycle \div cyclesPerLine
        dot == s.nextCycle % cyclesPerLine
        lineCompareEqual == s.LYC = line
        lineCompareChanged == lineCompareEqual # s.lastLineCompare
    IN  /\ readBitN(s.LCDC, 7)
        /\ \/ readBitN(s.STAT, 6) /\ lineCompareEqual /\ lineCompareChanged
           \/ line >= 144 /\ dot = 0 /\ readBitN(s.STAT, 4)
           \/ line < 144 /\ dot = 0 /\ readBitN(s.STAT, 5)
           \/ line < 144 /\ dot = 80 + 168 /\ readBitN(s.STAT, 3)

\* Does this Cycle call InterruptLCDCStatus.Set()?
requestsLCDCStatus(s) ==
    LET line == s.nextCycle \div cyclesPerLine
        dot == s.nextCycle % cyclesPerLine
        lineCompareEqual == s.LYC = line
        lineCompareChanged == lineCompareEqual # s.lastLineCompare
    IN  /\ readBitN(s.LCDC, 7)
        /\ \/ readBitN(s.STAT, 6) /\ lineCompareEqual /\ lineCompareChanged
           \/ entersVBlank(s) /\ readBitN(s.STAT, 4)
           \/ line < 144 /\ dot = 0 /\ readBitN(s.STAT, 5)
           \/ line < 144 /\ dot = 80 + 168 /\ readBitN(s.STAT, 3)

\* Cycle with a frame of 153 lines
videoCycleShortFrame(s) ==
    LET line == s.nextCycle \div cyclesPerLine
        dot == s.nextCycle % cyclesPerLine
        status == s.STAT
        lineCompareEqual == s.LYC = line
        mode == IF line >= 144 THEN 1 ELSE IF dot < 80 THEN 2
                ELSE IF dot < 80 + 168 THEN 3 ELSE 0
    IN  IF ~readBitN(s.LCDC, 7) THEN s
        ELSE [s EXCEPT
                !.nextCycle = (s.nextCycle + 1) % (cyclesPerLine * (linesPerFrame - 1)),
                !.FrameReady = entersVBlank(s),
                !.InterruptVBlank = @ \/ entersVBlank(s),
                !.InterruptLCDCStatus = @ \/ requestsLCDCStatus(s),
                !.screenY = IF line < 144 /\ dot = 0 THEN s.SCY ELSE @,
                !.vramAccessible = mode # 3,
                !.oamAccessible = mode \in {0, 1},
                !.LY = line,
                !.STAT = writeBitN(copyBits(status, mode, <<0, 1>>), 2, lineCompareEqual)]

\* Cycle that returns the PPU to line 0, dot 0 with both regions accessible
\* while the LCD is off
videoCycleResetsDisabled(s) ==
    LET line == s.nextCycle \div cyclesPerLine
        dot == s.nextCycle % cyclesPerLine
        status == s.STAT
        lineCompareEqual == s.LYC = line
        mode == IF line >= 144 THEN 1 ELSE IF dot < 80 THEN 2
                ELSE IF dot < 80 + 168 THEN 3 ELSE 0
    IN  IF ~readBitN(s.LCDC, 7)
          THEN [s EXCEPT !.nextCycle = 0, !.LY = 0, !.vramAccessible = TRUE,
                         !.oamAccessible = TRUE]
        ELSE [s EXCEPT
                !.nextCycle = (s.nextCycle + 1) % (cyclesPerLine * linesPerFrame),
                !.FrameReady = entersVBlank(s),
                !.InterruptVBlank = @ \/ entersVBlank(s),
                !.InterruptLCDCStatus = @ \/ requestsLCDCStatus(s),
                !.screenY = IF line < 144 /\ dot = 0 THEN s.SCY ELSE @,
                !.vramAccessible = mode # 3,
                !.oamAccessible = mode \in {0, 1},
                !.LY = line,
                !.STAT = writeBitN(copyBits(status, mode, <<0, 1>>), 2, lineCompareEqual)]

\* videoController.Cycle on the controller; the pixel it draws is in VideoCycle
videoCycle(s) ==
    LET line == s.nextCycle \div cyclesPerLine
        dot == s.nextCycle % cyclesPerLine
        status == s.STAT
        lineCompareEqual == s.LYC = line
        mode == IF line >= 144 THEN 1 ELSE IF dot < 80 THEN 2
                ELSE IF dot < 80 + 168 THEN 3 ELSE 0
    IN  IF ~readBitN(s.LCDC, 7) THEN s
        ELSE [s EXCEPT
                !.nextCycle = (s.nextCycle + 1) % (cyclesPerLine * linesPerFrame),
                !.FrameReady = entersVBlank(s),
                !.InterruptVBlank = @ \/ entersVBlank(s),
                !.InterruptLCDCStatus = @ \/ requestsLCDCStatus(s),
                !.screenY = IF line < 144 /\ dot = 0 THEN s.SCY ELSE @,
                !.vramAccessible = mode # 3,
                !.oamAccessible = mode \in {0, 1},
                !.LY = line,
                !.STAT = writeBitN(copyBits(status, mode, <<0, 1>>), 2, lineCompareEqual)]

\* Does this Cycle write the pixel at line 0, dot 0 of the frame?
drawsOrigin(s) == readBitN(s.LCDC, 7) /\ s.nextCycle = 80

\* The controllers as their constructors return them.
newTimerController ==
    [DIV |-> 0, TIMA |-> 0, TMA |-> 0, TAC |-> 0, incrementalTimer |-> 0,
     incrementalDivider |-> 0, Interrupt |-> FALSE]

newSerialController == [SB |-> 0, SC |-> 0, transferTicks |-> 0, Interrupt |-> FALSE]

newVideoController ==
    [LCDC |-> 0, STAT |-> 0, SCY |-> 0, LY |-> 0, LYC |-> 0, BGP |-> 0,
     vram |-> [a \in VramCells |-> 0], oam |-> [a \in OamCells |-> 0], screenY |-> 0,
     vramAccessible |-> TRUE, oamAccessible |-> TRUE, nextCycle |-> 0,
     FrameReady |-> FALSE, Frame |-> 1, lastLineCompare |-> FALSE,
     InterruptVBlank |-> FALSE, InterruptLCDCStatus |-> FALSE]

----------------------------------------------------------------------------
(* rom.go: the cartridge and its memory bank controller *)

newROM == [bankROMLow |-> 0, bankROMHighRAM |-> 0, bankRAMMode |-> FALSE]

\* rom.Write8 for an address in 0x2000..0x7FFF
romWrite8(r, address, v) ==
    CASE address \in \h2000 .. \h3FFF -> [r EXCEPT !.bankROMLow = And8(v, \h1F)]
      [] address \in \h4000 .. \h5FFF -> [r EXCEPT !.bankROMHighRAM = And8(v, \h03)]
      [] address \in \h6000 .. \h7FFF -> [r EXCEPT !.bankRAMMode = readBitN(v, 0)]

\* romBankNumber that takes bank 0 as it is
romBankNumberUncoerced(r) ==
    IF r.bankRAMMode THEN r.bankROMLow
    ELSE Or8(U8(r.bankROMHighRAM * 32), r.bankROMLow)

romBankNumber(r) ==
    LET num == IF r.bankROMLow = 0 THEN 1 ELSE r.bankROMLow
    IN  IF r.bankRAMMode THEN num
        ELSE Or8(U8(r.bankROMHighRAM * 32), num)

\* rom.Read8 serving the whole ROM region from the selected bank
romRead8Switched(r, address) ==
    U16(U16(\h4000 * romBankNumber(r)) + U16(address % \h4000))

\* The index of r.data whose byte rom.Read8 returns, for an address in
\* 0x0000..0x7FFF.  The operands are uint16, and so is the index.
romRead8(r, address) ==
    IF address <= \h3FFF THEN address
    ELSE U16(U16(\h4000 * romBankNumber(r)) + U16(address - \h4000))

----------------------------------------------------------------------------
(* memory.go, rom.go: the two ROMs behind the bus.  An image is named by a  *)
(* number, 0 for no data; the model keeps which image a ROM holds and       *)
(* computes the byte an image has at an index.                              *)

\* What ioutil.ReadFile returns for a path of the host: the error, the length
\* of the data, the image the data is, and its byte 0x0147 (the MBC protocol).
ReadFile(path) ==
    CASE path = "rom.gb" -> [err |-> FALSE, len |-> 32768, image |-> 1, mbc |-> 1]
      [] path = "other.gb" -> [err |-> FALSE, len |-> 65536, image |-> 3, mbc |-> 0]
      [] path = "mbc5.gb" -> [err |-> FALSE, len |-> 32768, image |-> 5, mbc |-> 25]
      [] path = "boot.bin" -> [err |-> FALSE, len |-> 256, image |-> 2, mbc |-> 0]
      [] path = "dmg.bin" -> [err |-> FALSE, len |-> 256, image |-> 4, mbc |-> 0]
      [] path = "short.bin" -> [err |-> FALSE, len |-> 255, image |-> 6, mbc |-> 0]
      [] OTHER -> [err |-> TRUE, len |-> 0, image |-> 0, mbc |-> 0]

\* The byte of an image at an index.
data(image, index) == (index + index \div 256 + 17 * image) % 256

newMemory == [IsBootROMLoaded |-> FALSE, bootROM |-> 0, rom |-> 0]

\* rom.LoadROM: [err, m].  The data is kept before the MBC protocol is checked.
LoadROM(m, path) ==
    LET f == ReadFile(path)
    IN  IF f.err \/ f.len < 32768 THEN [err |-> TRUE, m |-> m]
        ELSE [err |-> f.mbc > 1, m |-> [m EXCEPT !.rom = f.image]]

\* bootROM.LoadBootROM: [err, m]
bootROMLoadBootROM(m, path) ==
    LET f == ReadFile(path)
    IN  IF f.err \/ f.len # 256 THEN [err |-> TRUE, m |-> m]
        ELSE [err |-> FALSE, m |-> [m EXCEPT !.bootROM = f.image]]

\* memory.LoadBootROM: [err, m].  pages[0] is the boot ROM exactly while
\* IsBootROMLoaded is true.
LoadBootROM(m, path) ==
    LET r == bootROMLoadBootROM(m, path)
    IN  IF r.err THEN r
        ELSE [err |-> FALSE, m |-> [r.m EXCEPT !.IsBootROMLoaded = TRUE]]

\* UnloadBootROM that leaves the boot ROM in page 0
UnloadBootROMKept(m) == m

UnloadBootROM(m) == [m EXCEPT !.IsBootROMLoaded = FALSE]

\* memory.Read8 for 0xFF50 and for the pages of the ROMs, 0x00..0x7F
memoryRead8(m, r, address) ==
    IF address = \hFF50 THEN 0
    ELSE IF address \div 256 = 0 /\ m.IsBootROMLoaded THEN data(m.bootROM, address)
    ELSE data(m.rom, romRead8(r, address))

\* memory.Write8 of 0x01 to 0xFF50
memoryWrite8Latch(m) == UnloadBootROM(m)

----------------------------------------------------------------------------
(* interrupt.go and the wiring of Emulator.New *)

\* interruptSources as New registers them, "" being nil
interruptSources == <<"", "", "timer", "serial", "joypad">>

registered(name) == \E i \in 1 .. 5 : interruptSources[i] = name

\* the pending flag of the source registered at an offset
pendingAt(offset, t, s, j, v) ==
    CASE interruptSources[offset + 1] = "timer" -> t.Interrupt
      [] interruptSources[offset + 1] = "serial" -> s.Interrupt
      [] interruptSources[offset + 1] = "joypad" -> j.Interrupt
      [] interruptSources[offset + 1] = "vblank" -> v.InterruptVBlank
      [] interruptSources[offset + 1] = "lcdstat" -> v.InterruptLCDCStatus
      [] OTHER -> FALSE

\* CheckSourcesForInterrupts reading the sources without setting a flag
checkedFlagDropped(flag, t, s, j, v) == flag

\* interruptFlag after CheckSourcesForInterrupts
checkedFlag(flag, t, s, j, v) ==
    LET f[i \in 0 .. 5] ==
            IF i = 0 THEN flag
            ELSE IF pendingAt(i - 1, t, s, j, v) THEN writeBitN(f[i - 1], i - 1, TRUE)
            ELSE f[i - 1]
    IN  f[5]

----------------------------------------------------------------------------
(* The programs and hosts the model explores *)

\* Targets of JP and CALL
JumpTargets == {\h0150}

\* Stores LDH (a8),A of the program: <<a8, the value of A>>
IOWrites == {<<\h07, \h05>>, <<\h02, \h81>>, <<\h40, \h11>>}

\* The decoded instructions a fetch can yield
Ops ==
    {Inst(e, e, "", 0, 0) : e \in {"NOP", "EI", "DI", "HALT", "STOP", "RETI"}}
    \cup {Inst("RETcc", "RET", "C", 0, 0), Inst("JRcc", "JR", "C", 2, 0)}
    \cup {Inst("JPcc", "JP", c, a, 0) : c \in {"C", "NC"}, a \in JumpTargets}
    \cup {Inst("CALLcc", "CALL", "C", a, 0) : a \in JumpTargets}
    \cup {Inst("LDH", "LD8", "", w[1], w[2]) : w \in IOWrites}

\* The instructions a fetch can yield that the CPU or the bus refuses: an
\* opcode with no instruction, and stores to the OAM DMA register, to echo
\* RAM, and of a value other than 1 to 0xFF50
Faults ==
    {[Mnemonic |-> "ILLEGAL", address |-> 0, v |-> 0],
     [Mnemonic |-> "LD8", address |-> \hFF46, v |-> \hC0],
     [Mnemonic |-> "LD8", address |-> \hE000, v |-> \h00],
     [Mnemonic |-> "LD8", address |-> \hFF50, v |-> \h02]}

\* The arguments of Run: <<path, bootPath>>
RunArguments ==
    {<<"rom.gb", "">>, <<"rom.gb", "boot.bin">>, <<"rom.gb", "short.bin">>,
     <<"rom.gb", "missing.bin">>, <<"missing.gb", "">>, <<"mbc5.gb", "boot.bin">>}

\* The machine as Run leaves it when no boot ROM is given, before the loop.
PostBoot ==
    [cpu |-> [ProgramCounter |-> \h0100, PowerOn |-> TRUE, lowPowerMode |-> FALSE,
              Interrupts |-> interruptsDisabled],
     regs |-> [SP |-> \hFFFE, flagC |-> TRUE],
     ram |-> [a \in HramCells |-> 0],
     interrupt |-> [interruptFlag |-> 0, interruptEnabled |-> 0],
     timer |-> [DIV |-> 0, TIMA |-> 0, TMA |-> 0, TAC |-> 0, incrementalTimer |-> 0,
                incrementalDivider |-> 0, Interrupt |-> FALSE],
     serial |-> [SB |-> 0, SC |-> 0, transferTicks |-> 0, Interrupt |-> FALSE],
     video |-> [LCDC |-> \h91, STAT |-> 0, SCY |-> 0, LY |-> 0, LYC |-> 0, BGP |-> \hFC,
                vram |-> [a \in VramCells |-> 0], oam |-> [a \in OamCells |-> 0],
                screenY |-> 0,
                vramAccessible |-> TRUE, oamAccessible |-> TRUE, nextCycle |-> 0,
                FrameReady |-> FALSE, Frame |-> 1, lastLineCompare |-> FALSE,
                InterruptVBlank |-> FALSE, InterruptLCDCStatus |-> FALSE]]

\* The machine as New constructs it.
Constructed ==
    [cpu |-> [ProgramCounter |-> \h0100, PowerOn |-> TRUE, lowPowerMode |-> FALSE,
              Interrupts |-> interruptsDisabled],
     regs |-> [SP |-> 0, flagC |-> FALSE],
     ram |-> [a \in HramCells |-> 0],
     interrupt |-> [interruptFlag |-> 0, interruptEnabled |-> 0],
     timer |-> newTimerController,
     serial |-> newSerialController,
     video |-> newVideoController]

----------------------------------------------------------------------------
(* emulator.go: Emulator.Run, one action per step of the loop body *)

Machine == [cpu |-> cpu, regs |-> regs, ram |-> ram, interrupt |-> interrupt,
            timer |-> timer, serial |-> serial, video |-> video]

\* cpuIdleCycles = e.CPU.Cycle(): the cycles of the step taken whole
idleAfterWhole(cycles) == cycles

\* cpuIdleCycles = e.CPU.Cycle() - 1: the tick of the step is one of its cycles
idleAfter(cycles) == cycles - 1

SetMachine(m) ==
    /\ cpu' = m.cpu
    /\ regs' = m.regs
    /\ ram' = m.ram
    /\ interrupt' = m.interrupt
    /\ timer' = m.timer
    /\ serial' = m.serial
    /\ video' = m.video

\* The part of Run before the loop: LoadROM, whose error Run returns, then
\* LoadBootROM and PC = 0 when a boot path is given, the registers and the IO
\* registers of the end of the boot sequence when none is.
RunLoad ==
    /\ run.pc = "call"
    /\ LET l == LoadROM(memory, run.path)
       IN  IF l.err
             THEN /\ memory' = l.m
                  /\ run' = [run EXCEPT !.pc = "failed"]
                  /\ UNCHANGED <<cpu, regs, ram, interrupt, timer, serial, video>>
           ELSE IF run.bootPath # ""
             THEN /\ memory' = LoadBootROM(l.m, run.bootPath).m
                  /\ SetMachine([Machine EXCEPT !.cpu.ProgramCounter = 0])
                  /\ run' = [run EXCEPT !.pc = "top"]
           ELSE /\ memory' = l.m
                /\ SetMachine(PostBoot)
                /\ run' = [run EXCEPT !.pc = "top"]
    /\ UNCHANGED <<rom, joypad, frames, ctx, host, obs>>

\* for e.CPU.PowerOn { select { case <-ctx.Done(): return nil; default: } ...
\* and the return nil after the loop
RunReturn ==
    /\ run.pc = "top"
    /\ ~cpu.PowerOn \/ ctx.done
    /\ run' = [run EXCEPT !.pc = "returned"]
    /\ UNCHANGED <<rom, memory, cpu, regs, ram, interrupt, timer, serial, joypad, video, frames,
                   ctx, host, obs>>

TickStart ==
    /\ run.pc = "top"
    /\ cpu.PowerOn /\ ~ctx.done
    /\ obs.tick < MaxTicks
    /\ run.cpuIdleCycles > 0 \/ cycleKind(Machine) # "fetch" \/ obs.fetches < MaxFetches
    /\ run' = [run EXCEPT !.pc = "cpu"]
    /\ obs' = [obs EXCEPT !.tick = @ + 1, !.raised = {}, !.wrote = 0, !.value = 0,
                          !.old = [TAC |-> timer.TAC, SC |-> serial.SC,
                                   LCDC |-> video.LCDC]]
    /\ UNCHANGED <<rom, memory, cpu, regs, ram, interrupt, timer, serial, joypad, video, frames,
                   ctx, host>>

\* if cpuIdleCycles > 0 { cpuIdleCycles-- }
CpuIdle ==
    /\ run.pc = "cpu"
    /\ run.cpuIdleCycles > 0
    /\ run' = [run EXCEPT !.pc = "video", !.cpuIdleCycles = @ - 1]
    /\ UNCHANGED <<rom, memory, cpu, regs, ram, interrupt, timer, serial, joypad, video, frames,
                   ctx, host, obs>>

\* else { cpuIdleCycles = e.CPU.Cycle() - 1 }: the wait in low power mode
CpuWait ==
    /\ run.pc = "cpu"
    /\ run.cpuIdleCycles = 0
    /\ cycleKind(Machine) = "wait"
    /\ LET r == Cycle(Machine, Inst("NOP", "NOP", "", 0, 0))
       IN  /\ SetMachine(r.m)
           /\ run' = [run EXCEPT !.pc = "video", !.cpuIdleCycles = idleAfter(r.cycles)]
           /\ obs' = [obs EXCEPT !.kind = "wait", !.nextCpuTick = obs.tick + r.cycles,
                                 !.eiPhase = 0, !.seq = 0, !.woke = FALSE]
    /\ UNCHANGED <<rom, memory, joypad, frames, ctx, host>>

\* the CPU step that services an interrupt
CpuInterrupt ==
    /\ run.pc = "cpu"
    /\ run.cpuIdleCycles = 0
    /\ cycleKind(Machine) = "interrupt"
    /\ pushMapped(Machine)
    /\ LET r == Cycle(Machine, Inst("NOP", "NOP", "", 0, 0))
       IN  /\ SetMachine(r.m)
           /\ run' = [run EXCEPT !.pc = "video", !.cpuIdleCycles = idleAfter(r.cycles)]
           /\ obs' = [obs EXCEPT !.kind = "interrupt",
                                 !.nextCpuTick = obs.tick + r.cycles,
                                 !.eiPhase = IF obs.eiPhase = 2 THEN 3 ELSE 0,
                                 !.seq = 0, !.woke = cpu.lowPowerMode]
    /\ UNCHANGED <<rom, memory, joypad, frames, ctx, host>>

\* the CPU step that fetches and executes the instruction at ProgramCounter
CpuFetch ==
    /\ run.pc = "cpu"
    /\ run.cpuIdleCycles = 0
    /\ cycleKind(Machine) = "fetch"
    /\ Executable(cpu.ProgramCounter)
    /\ \E inst \in Ops :
         /\ executeMapped(Machine, inst)
         /\ LET r == Cycle(Machine, inst)
            IN  /\ SetMachine(r.m)
                /\ run' = [run EXCEPT !.pc = "video", !.cpuIdleCycles = idleAfter(r.cycles)]
                /\ obs' = [obs EXCEPT
                       !.kind = "fetch",
                       !.fetches = @ + 1,
                       !.last = inst.Mnemonic,
                       !.nextCpuTick = obs.tick + r.cycles,
                       !.wrote = IF inst.Mnemonic = "LD8" THEN \hFF00 + inst.arg ELSE 0,
                       !.value = IF inst.Mnemonic = "LD8" THEN inst.v ELSE 0,
                       !.eiPhase = IF inst.Mnemonic = "EI"
                                      /\ cpu.Interrupts = interruptsDisabled THEN 1
                                   ELSE IF obs.eiPhase = 1 THEN 2 ELSE 0,
                       !.seq = IF inst.Mnemonic = "EI" THEN 1
                               ELSE IF obs.seq = 1 /\ inst.Mnemonic = "NOP" THEN 2
                               ELSE IF obs.seq = 2 /\ inst.Mnemonic = "DI" THEN 3
                               ELSE 0,
                       !.woke = cpu.lowPowerMode]
    /\ UNCHANGED <<rom, memory, joypad, frames, ctx, host>>

\* The CPU step that panics in execute: log.Panicf unwinds Run, which has no
\* recover, and the process ends.
CpuPanic ==
    /\ run.pc = "cpu"
    /\ run.cpuIdleCycles = 0
    /\ cycleKind(Machine) = "fetch"
    /\ Executable(cpu.ProgramCounter)
    /\ \E inst \in Faults :
         /\ executePanics(inst)
         /\ obs' = [obs EXCEPT !.kind = "fault", !.last = inst.Mnemonic]
    /\ run' = [run EXCEPT !.pc = "panicked"]
    /\ UNCHANGED <<rom, memory, cpu, regs, ram, interrupt, timer, serial, joypad, video,
                   frames, ctx, host>>

\* The CPU step fetches an instruction the model does not decode, or touches
\* an address the model does not keep: the run leaves the model.
CpuUnmodelled ==
    /\ run.pc = "cpu"
    /\ run.cpuIdleCycles = 0
    /\ \/ cycleKind(Machine) = "fetch"
       \/ cycleKind(Machine) = "interrupt" /\ ~pushMapped(Machine)
    /\ run' = [run EXCEPT !.pc = "unmodelled"]
    /\ UNCHANGED <<rom, memory, cpu, regs, ram, interrupt, timer, serial, joypad, video, frames,
                   ctx, host, obs>>

\* e.Video.Cycle()
VideoCycle ==
    /\ run.pc = "video"
    /\ video' = videoCycle(video)
    /\ frames' = IF drawsOrigin(video)
                   THEN [frames EXCEPT ![video.Frame] = calculateShade(video)]
                   ELSE frames
    /\ obs' = [obs EXCEPT !.stepped.video = @ + 1,
                          !.raised = @ \cup (IF entersVBlank(video) THEN {"vblank"} ELSE {})
                                       \cup (IF requestsLCDCStatus(video) THEN {"lcdstat"} ELSE {})]
    /\ run' = [run EXCEPT !.pc = "timer"]
    /\ UNCHANGED <<rom, memory, cpu, regs, ram, interrupt, timer, serial, joypad, ctx, host>>

\* e.Timer.Cycle()
TimerCycle ==
    /\ run.pc = "timer"
    /\ timer' = timerCycle(timer)
    /\ obs' = [obs EXCEPT !.stepped.timer = @ + 1,
                          !.raised = @ \cup (IF timerOverflows(timer) THEN {"timer"} ELSE {})]
    /\ run' = [run EXCEPT !.pc = "serial"]
    /\ UNCHANGED <<rom, memory, cpu, regs, ram, interrupt, serial, joypad, video, frames, ctx, host>>

\* e.Serial.Cycle()
SerialCycle ==
    /\ run.pc = "serial"
    /\ serial' = serialCycle(serial)
    /\ obs' = [obs EXCEPT !.stepped.serial = @ + 1,
                          !.raised = @ \cup (IF serialCompletes(serial) THEN {"serial"} ELSE {})]
    /\ run' = [run EXCEPT !.pc = "check"]
    /\ UNCHANGED <<rom, memory, cpu, regs, ram, interrupt, timer, joypad, video, frames, ctx, host>>

\* e.Interrupt.CheckSourcesForInterrupts(), and the branch on FrameReady after it
CheckSourcesForInterrupts ==
    /\ run.pc = "check"
    /\ interrupt' = [interrupt EXCEPT
           !.interruptFlag = checkedFlag(@, timer, serial, joypad, video)]
    /\ timer' = [timer EXCEPT !.Interrupt = @ /\ ~registered("timer")]
    /\ serial' = [serial EXCEPT !.Interrupt = @ /\ ~registered("serial")]
    /\ joypad' = [joypad EXCEPT !.Interrupt = @ /\ ~registered("joypad")]
    /\ video' = [video EXCEPT
           !.InterruptVBlank = @ /\ ~registered("vblank"),
           !.InterruptLCDCStatus = @ /\ ~registered("lcdstat")]
    /\ run' = [run EXCEPT !.pc = IF ~video.FrameReady THEN "top"
                                 ELSE IF run.Speed > 0 THEN "throttle" ELSE "send"]
    /\ UNCHANGED <<rom, memory, cpu, regs, ram, frames, ctx, host, obs>>

\* select { case <-frameSync.C: ... }
ThrottleTick ==
    /\ run.pc = "throttle"
    /\ run' = [run EXCEPT !.pc = "send"]
    /\ UNCHANGED <<rom, memory, cpu, regs, ram, interrupt, timer, serial, joypad, video, frames,
                   ctx, host, obs>>

\* select { ... case <-ctx.Done(): return nil }
ThrottleCancelled ==
    /\ run.pc = "throttle"
    /\ ctx.done
    /\ run' = [run EXCEPT !.pc = "returned"]
    /\ UNCHANGED <<rom, memory, cpu, regs, ram, interrupt, timer, serial, joypad, video, frames,
                   ctx, host, obs>>

\* select { case e.FrameChan <- e.Video.Frame: ... }: the rendezvous with a
\* consumer that receives.  The consumer keeps the slice it was sent.
SendFrame ==
    /\ run.pc = "send"
    /\ host' = [frame |-> video.Frame, shade |-> frames[video.Frame]]
    /\ run' = [run EXCEPT !.pc = "top"]
    /\ UNCHANGED <<rom, memory, cpu, regs, ram, interrupt, timer, serial, joypad, video, frames,
                   ctx, obs>>

\* The send with no case for ctx.Done()
SendUncancellable == FALSE /\ UNCHANGED vars

\* select { ... case <-ctx.Done(): return nil }
SendCancelled ==
    /\ run.pc = "send"
    /\ ctx.done
    /\ run' = [run EXCEPT !.pc = "returned"]
    /\ UNCHANGED <<rom, memory, cpu, regs, ram, interrupt, timer, serial, joypad, video, frames,
                   ctx, host, obs>>

\* The host cancels the context.  The loop body reads ctx at its selects only,
\* so a cancellation during the body is taken at the body's last step.
Cancel ==
    /\ ~ctx.done
    /\ run.pc \in {"top", "check", "throttle", "send"}
    /\ ctx' = [done |-> TRUE, seen |-> obs.tick]
    /\ UNCHANGED <<rom, memory, cpu, regs, ram, interrupt, timer, serial, joypad, video, frames,
                   run, host, obs>>

Next ==
    \/ RunLoad
    \/ RunReturn \/ TickStart \/ CpuIdle \/ CpuWait \/ CpuInterrupt \/ CpuFetch
    \/ CpuPanic \/ CpuUnmodelled \/ VideoCycle \/ TimerCycle \/ SerialCycle
    \/ CheckSourcesForInterrupts \/ ThrottleTick \/ ThrottleCancelled
    \/ SendFrame \/ SendCancelled \/ Cancel

----------------------------------------------------------------------------
(* Initial states *)

\* The PPU about to process cycle n, having processed the cycle before it.
videoAt(v, n) == videoCycle([v EXCEPT !.nextCycle = n - 1])

\* The CPU as a program may have left it: <<IME, IE, IF, SP>>.  The last one
\* has its stack at the top of VRAM.
ProgramStates ==
    {<<interruptsDisabled, \h00, \h00, \hFFFE>>,
     <<interruptsDisabled, \h1F, \h05, \hFFFE>>,
     <<interruptsEnabled, \h1F, \h05, \hFFFE>>,
     <<interruptsEnabled, \h04, \h0C, \hFFFE>>,
     <<interruptsEnabled, \hFF, \hE0, \hFFFE>>,
     <<interruptsEnabled, \h1F, \h18, \hFFFE>>,
     <<interruptsEnabledAfterCycle, \h1F, \h05, \hFFFE>>,
     <<interruptsEnabled, \h1F, \h05, \hA000>>}

\* STAT and LYC as a program may have left them: <<STAT, LYC>>
StatusSettings == {<<\h00, 0>>, <<\h10, 0>>, <<\h40, 144>>, <<\h08, 0>>}

\* The state at the top of the loop, no tick observed yet: the machine m, the
\* Speed option, the shade of the frame's origin pixel, and the frame the
\* consumer holds (0 when it has received none).
InitRun(m, speed, shade, held) ==
    /\ cpu = m.cpu
    /\ regs = m.regs
    /\ ram = m.ram
    /\ interrupt = m.interrupt
    /\ timer = m.timer
    /\ serial = m.serial
    /\ video = m.video
    /\ joypad = [Interrupt |-> FALSE]
    /\ rom = newROM
    /\ memory = LoadROM(newMemory, "rom.gb").m
    /\ frames = <<shade>>
    /\ run = [pc |-> "top", cpuIdleCycles |-> 0, Speed |-> speed,
              path |-> "rom.gb", bootPath |-> ""]
    /\ ctx = [done |-> FALSE, seen |-> 0]
    /\ host = [frame |-> held, shade |-> shade]
    /\ obs = [tick |-> 0, fetches |-> 0, nextCpuTick |-> 1, raised |-> {}, wrote |-> 0,
              value |-> 0, old |-> [TAC |-> m.timer.TAC, SC |-> m.serial.SC,
                                    LCDC |-> m.video.LCDC],
              stepped |-> [video |-> 0, timer |-> 0, serial |-> 0],
              kind |-> "none", last |-> "", eiPhase |-> 0, seq |-> 0, woke |-> FALSE]

\* Run entered without a boot ROM.
InitBoot == InitRun(PostBoot, 1, 0, 0)

\* A program under way: it has set the stack pointer, IE and IF, and may have
\* executed EI; the PPU draws line 0, VRAM is locked.
InitProgram ==
    \E p \in ProgramStates :
        InitRun([PostBoot EXCEPT
                    !.cpu.Interrupts = p[1],
                    !.interrupt = [interruptFlag |-> p[3], interruptEnabled |-> p[2]],
                    !.regs.SP = p[4],
                    !.video = videoAt(@, 100)],
                0, 0, 0)

\* The CPU halted with every interrupt enabled, the peripherals about to
\* request: TIMA overflows and the serial transfer ends in the second tick,
\* the PPU reaches line 144 in the fourth.
InitPeripherals ==
    \E st \in StatusSettings, speed \in {0, 1} :
        InitRun([PostBoot EXCEPT
                    !.cpu.Interrupts = interruptsEnabled,
                    !.cpu.lowPowerMode = TRUE,
                    !.interrupt.interruptEnabled = \h1F,
                    !.timer = [@ EXCEPT !.TAC = \h05, !.TIMA = \hFF,
                                         !.incrementalTimer = 128],
                    !.serial = [@ EXCEPT !.SC = \h81,
                                          !.transferTicks = serialTransferCycles - 2],
                    !.video = videoAt([@ EXCEPT !.STAT = st[1], !.LYC = st[2]],
                                      144 * cyclesPerLine - 3)],
                speed, 0, 0)

\* The CPU halted with no interrupt enabled; the consumer holds the frame it
\* received at the last VBlank; the PPU is about to draw line 0 of the next.
InitFrame ==
    \E shade \in {0, 3}, tile \in {\h00, \h80} :
        InitRun([PostBoot EXCEPT
                    !.cpu.lowPowerMode = TRUE,
                    !.video = videoAt([@ EXCEPT !.vram[\h8000] = tile], 79)],
                0, shade, 1)

\* The program running after the boot sequence, the PPU about to enter line
\* 144: the frame is complete in the first tick.
InitVBlank ==
    InitRun([PostBoot EXCEPT !.video = videoAt(@, 144 * cyclesPerLine)], 0, 0, 0)

\* Run called on the machine New has constructed.
InitCall ==
    \E a \in RunArguments :
        /\ cpu = Constructed.cpu
        /\ regs = Constructed.regs
        /\ ram = Constructed.ram
        /\ interrupt = Constructed.interrupt
        /\ timer = Constructed.timer
        /\ serial = Constructed.serial
        /\ video = Constructed.video
        /\ joypad = [Interrupt |-> FALSE]
        /\ rom = newROM
        /\ memory = newMemory
        /\ frames = <<0>>
        /\ run = [pc |-> "call", cpuIdleCycles |-> 0, Speed |-> 1,
                  path |-> a[1], bootPath |-> a[2]]
        /\ ctx = [done |-> FALSE, seen |-> 0]
        /\ host = [frame |-> 0, shade |-> 0]
        /\ obs = [tick |-> 0, fetches |-> 0, nextCpuTick |-> 1, raised |-> {}, wrote |-> 0,
                  value |-> 0, old |-> [TAC |-> 0, SC |-> 0, LCDC |-> Constructed.video.LCDC],
                  stepped |-> [video |-> 0, timer |-> 0, serial |-> 0],
                  kind |-> "none", last |-> "", eiPhase |-> 0, seq |-> 0, woke |-> FALSE]

Init == InitBoot \/ InitProgram \/ InitPeripherals \/ InitFrame \/ InitVBlank \/ InitCall

Spec == Init /\ [][Next]_vars

\* The steps Run takes on its own.  ThrottleTick waits for the ticker and
\* SendFrame for a consumer, which may never come.
Progress ==
    \/ RunLoad
    \/ RunReturn \/ TickStart \/ CpuIdle \/ CpuWait \/ CpuInterrupt \/ CpuFetch
    \/ CpuPanic \/ CpuUnmodelled \/ VideoCycle \/ TimerCycle \/ SerialCycle
    \/ CheckSourcesForInterrupts \/ ThrottleCancelled \/ SendCancelled

\* The goroutine of Run is scheduled as long as it can take a step.
FairSpec == Spec /\ WF_vars(Progress)

----------------------------------------------------------------------------
(* The controllers on their own, driven as the package's tests drive them:   *)
(* the program's writes go to Write8, the cycles to Cycle, and the caller    *)
(* reads and clears the interrupt sources before each Cycle.  The rest of    *)
(* the machine is as New leaves it and Run is not running.                   *)

machineAtRest == <<cpu, regs, ram, interrupt, joypad, memory, frames, run, ctx, host>>

\* Run is not running, nothing is sent and nothing received.
Idle ==
    /\ joypad = [Interrupt |-> FALSE]
    /\ frames = <<0>>
    /\ run = [pc |-> "idle", cpuIdleCycles |-> 0, Speed |-> 0, path |-> "", bootPath |-> ""]
    /\ ctx = [done |-> FALSE, seen |-> 0]
    /\ host = [frame |-> 0, shade |-> 0]

\* The controllers t, s, v and the cartridge r on their own, observed by o.
Alone(t, s, v, r, o) ==
    /\ Idle
    /\ cpu = PostBoot.cpu
    /\ regs = PostBoot.regs
    /\ ram = PostBoot.ram
    /\ interrupt = PostBoot.interrupt
    /\ memory = newMemory
    /\ timer = t
    /\ serial = s
    /\ video = v
    /\ rom = r
    /\ obs = o

(* The cartridge.  obs: the bytes last written to the three bank registers,  *)
(* and the last read since then: its address, the bank selected, the index   *)
(* of data it returned.                                                      *)

\* The bank-select writes of a program: <<address, value>>
RomWrites ==
    {<<a, v>> : a \in {\h2000, \h3FFF}, v \in (0 .. 31) \cup {\h20, \h3F, \hE0, \hFF}}
    \cup {<<a, v>> : a \in {\h4000, \h5FFF}, v \in {0, 1, 2, 3, 4, \hFF}}
    \cup {<<a, v>> : a \in {\h6000, \h7FFF}, v \in {0, 1, 2, \hFF}}

\* The addresses a program reads in the switchable bank
RomReads == {\h4000, \h4001, \h7FFF}

RomInit ==
    Alone(newTimerController, newSerialController, newVideoController, newROM,
          [low |-> 0, high |-> 0, mode |-> 0, address |-> 0, bank |-> 0, index |-> 0])

RomWrite ==
    /\ \E w \in RomWrites :
         /\ rom' = romWrite8(rom, w[1], w[2])
         /\ obs' = [low |-> IF w[1] \in \h2000 .. \h3FFF THEN w[2] ELSE obs.low,
                    high |-> IF w[1] \in \h4000 .. \h5FFF THEN w[2] ELSE obs.high,
                    mode |-> IF w[1] \in \h6000 .. \h7FFF THEN w[2] ELSE obs.mode,
                    address |-> 0, bank |-> 0, index |-> 0]
    /\ UNCHANGED <<machineAtRest, timer, serial, video>>

RomRead ==
    /\ \E a \in RomReads :
         obs' = [obs EXCEPT !.address = a, !.bank = romBankNumber(rom),
                            !.index = romRead8(rom, a)]
    /\ UNCHANGED <<machineAtRest, timer, serial, video, rom>>

RomNext == RomWrite \/ RomRead

RomSpec == RomInit /\ [][RomNext]_vars

(* The serial port.  obs: the cycles since SC was last written (since the    *)
(* construction before that), the byte SB held and the byte written to SC    *)
(* then, the bytes the callback has received since, and whether a write to   *)
(* SC is being observed.                                                     *)

\* Number of Serial cycles explored after a write to SC.
MaxSerialCycles == 2005

\* The writes of a program to SB and SC: <<address, value>>
SerialWrites ==
    {<<\hFF01, \h00>>, <<\hFF01, \h41>>,
     <<\hFF02, \h81>>, <<\hFF02, \h83>>, <<\hFF02, \h80>>, <<\hFF02, \h01>>}

SerialInit ==
    Alone(newTimerController, newSerialController, newVideoController, newROM,
          [n |-> 0, b |-> 0, sc |-> 0, calls |-> <<>>, started |-> FALSE])

\* The program writes SB or SC while no transfer is under way.
SerialWrite ==
    /\ ~readBitN(serial.SC, 0) \/ ~readBitN(serial.SC, 7)
    /\ \E w \in SerialWrites :
         /\ serial' = serialWrite8(serial, w[1], w[2])
         /\ obs' = IF w[1] = \hFF02
                     THEN [n |-> 0, b |-> serial.SB, sc |-> w[2], calls |-> <<>>,
                           started |-> TRUE]
                     ELSE [obs EXCEPT !.started = FALSE]
    /\ UNCHANGED <<machineAtRest, timer, video, rom>>

\* Interrupt.ReadAndClear(), then Cycle()
SerialStep ==
    /\ obs.n < MaxSerialCycles
    /\ serial' = serialCycle([serial EXCEPT !.Interrupt = FALSE])
    /\ obs' = [obs EXCEPT !.n = @ + 1, !.calls = @ \o serialCallback(serial)]
    /\ UNCHANGED <<machineAtRest, timer, video, rom>>

SerialNext == SerialWrite \/ SerialStep

SerialSpec == SerialInit /\ [][SerialNext]_vars

(* The timer.  obs: the cycles since the construction, the cycles since the  *)
(* last write to TAC (-1: none) with the value TIMA had then, the cycle after *)
(* that write in which the request was first raised (0: not yet), and the     *)
(* cycles since the last write to DIV (-1: none), counted up to 257.          *)

\* Number of Timer cycles explored from the construction.
MaxTimerCycles == 1100

\* The values a program gives TIMA and TMA before it starts the timer
TimerSetups ==
    {<<\hFF05, \h00>>, <<\hFF05, \hFE>>, <<\hFF05, \hFF>>, <<\hFF06, \h20>>}

\* The values a program writes to TAC, and the cycles at which it does
TacValues == {\h00, \h04, \h05, \h06, \h07}
TacWriteTimes == {0, 3}

\* The values a program writes to DIV, and the cycles at which it does
DivValues == {\h00, \hAB}
DivWriteTimes == {0, 1, 255, 300}

TimerInit ==
    Alone(newTimerController, newSerialController, newVideoController, newROM,
          [n |-> 0, sinceTac |-> -1, start |-> 0, fired |-> 0, sinceDiv |-> -1])

\* The program writes TIMA or TMA before it has written TAC.
TimerSetup ==
    /\ obs.n = 0 /\ obs.sinceTac = -1
    /\ \E w \in TimerSetups : timer' = timerWrite8(timer, w[1], w[2])
    /\ UNCHANGED <<machineAtRest, serial, video, rom, obs>>

TimerWriteTAC ==
    /\ obs.n \in TacWriteTimes
    /\ \E v \in TacValues : timer' = timerWrite8(timer, \hFF07, v)
    /\ obs' = [obs EXCEPT !.sinceTac = 0, !.start = timer.TIMA, !.fired = 0]
    /\ UNCHANGED <<machineAtRest, serial, video, rom>>

TimerWriteDIV ==
    /\ obs.n \in DivWriteTimes
    /\ \E v \in DivValues : timer' = timerWrite8(timer, \hFF04, v)
    /\ obs' = [obs EXCEPT !.sinceDiv = 0]
    /\ UNCHANGED <<machineAtRest, serial, video, rom>>

\* Interrupt.ReadAndClear(), then Cycle()
TimerStep ==
    /\ obs.n < MaxTimerCycles
    /\ timer' = timerCycle([timer EXCEPT !.Interrupt = FALSE])
    /\ obs' = [obs EXCEPT
           !.n = @ + 1,
           !.sinceTac = IF @ < 0 THEN @ ELSE @ + 1,
           !.fired = IF @ = 0 /\ obs.sinceTac >= 0 /\ timer'.Interrupt
                       THEN obs.sinceTac + 1 ELSE @,
           !.sinceDiv = IF @ < 0 \/ @ > 256 THEN @ ELSE @ + 1]
    /\ UNCHANGED <<machineAtRest, serial, video, rom>>

TimerNext == TimerSetup \/ TimerWriteTAC \/ TimerWriteDIV \/ TimerStep

TimerSpec == TimerInit /\ [][TimerNext]_vars

(* The PPU under a program that writes its registers at any time.  Nothing  *)
(* but the controller is observed.                                           *)

\* The writes of a program to LCDC, STAT and LYC: <<address, value>>
PpuWrites ==
    {<<\hFF40, \h80>>, <<\hFF40, \h00>>, <<\hFF41, \h07>>, <<\hFF41, \h78>>,
     <<\hFF45, 0>>, <<\hFF45, 1>>}

\* The sources read and cleared, as CheckSourcesForInterrupts does to a source
sourcesRead(v) ==
    [v EXCEPT !.InterruptVBlank = FALSE, !.InterruptLCDCStatus = FALSE]

PpuInit ==
    Alone(newTimerController, newSerialController, newVideoController, newROM, <<>>)

PpuWrite ==
    /\ \E w \in PpuWrites : video' = videoWrite8(video, w[1], w[2])
    /\ UNCHANGED <<machineAtRest, timer, serial, rom, obs>>

\* ReadAndClear() of both sources, then Cycle()
PpuCycle ==
    /\ video' = videoCycle(sourcesRead(video))
    /\ UNCHANGED <<machineAtRest, timer, serial, rom, obs>>

PpuNext == PpuWrite \/ PpuCycle

PpuSpec == PpuInit /\ [][PpuNext]_vars

(* The PPU set up and then left to run with the LCD on.  obs: the cycles     *)
(* since the LCD was enabled, how many of the last consecutive cycles wrote  *)
(* the value LY has, and the cycle that last made LY 0.                      *)

\* Number of PPU cycles explored after the LCD is enabled: a frame and a line.
MaxFrameCycles == 70700

\* What a program writes before it enables the LCD: <<address, value>>
FrameSetups ==
    {<<\hFF41, v>> : v \in {\h00, \h08, \h10, \h20, \h40}}
    \cup {<<\hFF45, 0>>, <<\hFF45, 144>>}
    \cup {<<\hFF40, \h80>>}

FrameInit ==
    Alone(newTimerController, newSerialController, newVideoController, newROM,
          [n |-> 0, held |-> 0, zeroAt |-> 0])

FrameSetup ==
    /\ ~readBitN(video.LCDC, 7)
    /\ \E w \in FrameSetups : video' = videoWrite8(video, w[1], w[2])
    /\ UNCHANGED <<machineAtRest, timer, serial, rom, obs>>

\* ReadAndClear() of both sources, then Cycle()
FrameCycle ==
    /\ readBitN(video.LCDC, 7)
    /\ obs.n < MaxFrameCycles
    /\ video' = videoCycle(sourcesRead(video))
    /\ obs' = [n |-> obs.n + 1,
               held |-> IF video'.LY = video.LY THEN obs.held + 1 ELSE 1,
               zeroAt |-> IF video'.LY = 0 /\ (video.LY # 0 \/ obs.n = 0)
                            THEN obs.n + 1 ELSE obs.zeroAt]
    /\ UNCHANGED <<machineAtRest, timer, serial, rom>>

FrameNext == FrameSetup \/ FrameCycle

FrameSpec == FrameInit /\ [][FrameNext]_vars

(* The bus in front of the two ROMs, driven as TestLoadAndUnloadBootROM      *)
(* drives it.  obs: whether a boot ROM was loaded, whether the program has   *)
(* written 0x01 to 0xFF50 since, whether it has written a bank register, and *)
(* the last read since the last write: its address (-1: none) and the byte   *)
(* returned.                                                                 *)

\* The addresses a program reads
BusReads == {\h0000, \h0001, \h00FF, \h0100, \h3FFF, \h4000, \hFF50}

\* The bank-select writes of a program: <<address, value>>
BusWrites == {<<\h2000, 2>>, <<\h4000, 1>>, <<\h6000, 1>>}

busAtRest == <<cpu, regs, ram, interrupt, joypad, frames, run, ctx, host, timer, serial,
               video>>

\* the memory after LoadROM, and after LoadBootROM when a boot path is given
BusInit ==
    \E path \in {"rom.gb", "other.gb"}, bootPath \in {"", "boot.bin", "dmg.bin"} :
        LET loaded == LoadROM(newMemory, path).m
        IN  /\ Idle
            /\ cpu = PostBoot.cpu
            /\ regs = PostBoot.regs
            /\ ram = PostBoot.ram
            /\ interrupt = PostBoot.interrupt
            /\ timer = newTimerController
            /\ serial = newSerialController
            /\ video = newVideoController
            /\ rom = newROM
            /\ memory = IF bootPath = "" THEN loaded ELSE LoadBootROM(loaded, bootPath).m
            /\ obs = [boot |-> bootPath # "", unmapped |-> FALSE, banked |-> FALSE,
                      address |-> -1, value |-> 0]

BusRead ==
    /\ \E a \in BusReads :
         obs' = [obs EXCEPT !.address = a, !.value = memoryRead8(memory, rom, a)]
    /\ UNCHANGED <<busAtRest, rom, memory>>

\* the program writes 0x01 to 0xFF50
BusUnmap ==
    /\ memory' = memoryWrite8Latch(memory)
    /\ obs' = [obs EXCEPT !.unmapped = TRUE, !.address = -1, !.value = 0]
    /\ UNCHANGED <<busAtRest, rom>>

\* the program writes a bank register of the cartridge
BusBank ==
    /\ \E w \in BusWrites : rom' = romWrite8(rom, w[1], w[2])
    /\ obs' = [obs EXCEPT !.banked = TRUE, !.address = -1, !.value = 0]
    /\ UNCHANGED <<busAtRest, memory>>

BusNext == BusRead \/ BusUnmap \/ BusBank

BusSpec == BusInit /\ [][BusNext]_vars

(* The register file on its own.  regs is registers.Data, its first four     *)
(* bytes: F, A, C, B.  obs: the last operation, its register and its value.  *)

\* The words a program writes to a register pair
RegWords == {\h0000, \h01B0, \h12AF, \h000F, \hFFFF}

\* The bytes a program writes to an 8-bit register
RegBytes == {\h00, \h0F, \hFF}

regsAtRest == <<cpu, ram, interrupt, joypad, frames, run, ctx, host, timer, serial,
                video, rom, memory>>

RegInit ==
    /\ Idle
    /\ cpu = PostBoot.cpu
    /\ ram = PostBoot.ram
    /\ interrupt = PostBoot.interrupt
    /\ timer = newTimerController
    /\ serial = newSerialController
    /\ video = newVideoController
    /\ rom = newROM
    /\ memory = newMemory
    /\ regs = newRegisters
    /\ obs = [op |-> "new", register |-> 0, v |-> 0]

\* Registers.Write16: POP, LD rr,d16, and the initialisation of Run
RegWrite16 ==
    /\ \E register \in {registerAF, registerBC}, v \in RegWords :
         /\ regs' = registersWrite16(regs, register, v)
         /\ obs' = [op |-> "Write16", register |-> register, v |-> v]
    /\ UNCHANGED regsAtRest

\* Registers.Write1: an instruction sets or clears a flag
RegWrite1 ==
    /\ \E flag \in {flags.Z, flags.N, flags.H, flags.C}, v \in BOOLEAN :
         /\ regs' = registersWrite1(regs, flag, v)
         /\ obs' = [op |-> "Write1", register |-> flag, v |-> IF v THEN 1 ELSE 0]
    /\ UNCHANGED regsAtRest

\* cpu.write8 to a register operand: A, C or B
RegWrite8 ==
    /\ \E register \in {registerA, registerC, registerB}, v \in RegBytes :
         /\ regs' = [regs EXCEPT ![register] = v]
         /\ obs' = [op |-> "write8", register |-> register, v |-> v]
    /\ UNCHANGED regsAtRest

RegNext == RegWrite16 \/ RegWrite1 \/ RegWrite8

RegSpec == RegInit /\ [][RegNext]_vars

(* The stack on its own: a push, and the pop that follows it at once.  obs:  *)
(* the word pushed (-1: none yet), the stack pointer before the push, the    *)
(* word popped (-1: not yet).                                                *)

\* The stack pointers of a program: in high RAM, below IE, at the top of
\* VRAM, and in the timer's registers.
StackPointers == {\hFFFE, \h0000, \hA000, \hFF06}

\* The words a program pushes
StackWords == {\h0000, \h1234, \h00FF, \hFFFF}

stackAtRest == <<rom, memory, joypad, frames, run, ctx, host>>

StackInit ==
    \E sp \in StackPointers, cycle \in {0, 100} :
        /\ Idle
        /\ cpu = PostBoot.cpu
        /\ regs = [PostBoot.regs EXCEPT !.SP = sp]
        /\ ram = PostBoot.ram
        /\ interrupt = PostBoot.interrupt
        /\ timer = newTimerController
        /\ serial = newSerialController
        /\ video = IF cycle = 0 THEN PostBoot.video ELSE videoAt(PostBoot.video, cycle)
        /\ rom = newROM
        /\ memory = newMemory
        /\ obs = [x |-> -1, sp |-> sp, popped |-> -1]

StackPush ==
    /\ obs.x = -1 \/ obs.popped # -1
    /\ pushMapped(Machine)
    /\ \E x \in StackWords :
         /\ SetMachine(stackPush(Machine, x))
         /\ obs' = [x |-> x, sp |-> regs.SP, popped |-> -1]
    /\ UNCHANGED stackAtRest

StackPop ==
    /\ obs.x # -1 /\ obs.popped = -1
    /\ popMapped(Machine)
    /\ LET r == stackPop(Machine)
       IN  /\ SetMachine(r.m)
           /\ obs' = [obs EXCEPT !.popped = r.v]
    /\ UNCHANGED stackAtRest

\* LD SP,d16 between a pop and the next push
StackLoad ==
    /\ obs.x = -1 \/ obs.popped # -1
    /\ \E sp \in StackPointers :
         /\ regs' = [regs EXCEPT !.SP = sp]
         /\ obs' = [x |-> -1, sp |-> sp, popped |-> -1]
    /\ UNCHANGED <<stackAtRest, cpu, ram, interrupt, timer, serial, video>>

StackNext == StackPush \/ StackPop \/ StackLoad

StackSpec == StackInit /\ [][StackNext]_vars

(* The palettes.  The program writes a palette to BGP and the PPU looks a    *)
(* colour number up in it.  obs: the palette, the colour number, the shade.  *)

paletteAtRest == <<machineAtRest, timer, serial, rom>>

PaletteInit ==
    Alone(newTimerController, newSerialController, newVideoController, newROM,
          [platter |-> 0, colorNum |-> -1, shade |-> 0])

PaletteLookup ==
    /\ \E p \in 0 .. 255, c \in 0 .. 3 :
         /\ video' = videoWrite8(video, \hFF47, p)
         /\ obs' = [platter |-> p, colorNum |-> c,
                    shade |-> lookupShadeInPlatter(videoRead8(video', \hFF47), c)]
    /\ UNCHANGED paletteAtRest

PaletteSpec == PaletteInit /\ [][PaletteLookup]_vars

(* The arithmetic instructions on their own, each executed as the package's  *)
(* tests do: on a CPU whose registers were loaded just before.  regs here is *)
(* Registers.Data, the ten bytes.  obs: the instruction, Data before it, the *)
(* operand byte that follows the opcode, and whether it has been executed.   *)

registerHL == 6
registerSP == 8

\* make([]byte, 10)
registersData == [i \in 0 .. 9 |-> 0]

registersRead1(d, flag) == readBitN(d[0], flag)

\* subtract with the half borrow taken from the whole bytes
subtractWholeBorrow(v1, v2) ==
    [result |-> U8(v1 - v2), borrow |-> v1 < v2, halfborrow |-> v1 < v2]

subtract(v1, v2) ==
    [result |-> U8(v1 - v2), borrow |-> v1 < v2, halfborrow |-> (v1 % 16) < (v2 % 16)]

add(v1, v2) ==
    [result |-> U8(v1 + v2), overflow |-> v1 > \hFF - v2,
     halfoverflow |-> (v1 % 16) > \h0F - (v2 % 16)]

\* bcdConversion that adjusts on the flags alone
bcdConversionOnFlags(v, wasSubtraction, halfcarry, carry) ==
    LET high == IF carry THEN U8(v + \h60) ELSE v
        low == IF halfcarry THEN U8(high + \h06) ELSE high
    IN  [vOut |-> low, carryOut |-> carry]

bcdConversion(v, wasSubtraction, halfcarry, carry) ==
    IF wasSubtraction
      THEN LET high == IF carry THEN U8(v - \h60) ELSE v
               low == IF halfcarry THEN U8(high - \h06) ELSE high
           IN  [vOut |-> low, carryOut |-> carry]
      ELSE LET adjust == carry \/ v > \h99
               high == IF adjust THEN U8(v + \h60) ELSE v
               low == IF halfcarry \/ (v % 16) > \h09 THEN U8(high + \h06) ELSE high
           IN  [vOut |-> low, carryOut |-> carry \/ adjust]

\* read8signed reading the byte as it is
read8unsigned(b) == b

\* int8(b): the byte after the opcode as a two's complement number
read8signed(b) == IF b >= 128 THEN b - 256 ELSE b

\* The four Write1 calls that end an instruction
writeFlags(d, z, n, h, c) ==
    registersWrite1(registersWrite1(registersWrite1(registersWrite1(
        d, flags.Z, z), flags.N, n), flags.H, h), flags.C, c)

\* case "LDSP": HL = SP + r8
executeLDSP(d, b) ==
    LET sp == registersRead16(d, registerSP)
        r8 == read8signed(b)
        v == offsetAddress(sp, r8)
        carry == (v % 256) < (sp % 256)
        halfcarry == (v % 16) < (sp % 16)
    IN  writeFlags(registersWrite16(d, registerHL, v), FALSE, FALSE, halfcarry, carry)

\* case "ADDSP": SP = SP + r8
executeADDSP(d, b) ==
    LET offset == read8signed(b)
        old == registersRead16(d, registerSP)
        new == offsetAddress(old, offset)
        carry == (new % 256) < (old % 256)
        halfcarry == (new % 16) < (old % 16)
    IN  writeFlags(registersWrite16(d, registerSP, new), FALSE, FALSE, halfcarry, carry)

\* case "INC8" on a register operand
executeINC8(d, register) ==
    LET r == add(d[register], 1)
        stored == [d EXCEPT ![register] = r.result]
    IN  registersWrite1(registersWrite1(registersWrite1(
            stored, flags.Z, r.result = 0), flags.N, FALSE), flags.H, r.halfoverflow)

\* case "DEC8" on a register operand
executeDEC8(d, register) ==
    LET r == subtract(d[register], 1)
        stored == [d EXCEPT ![register] = r.result]
    IN  registersWrite1(registersWrite1(registersWrite1(
            stored, flags.Z, r.result = 0), flags.N, TRUE), flags.H, r.halfborrow)

\* case "ADD8": A = A + d8
executeADD8(d, v) ==
    LET r == add(d[registerA], v)
    IN  writeFlags([d EXCEPT ![registerA] = r.result],
                   r.result = 0, FALSE, r.halfoverflow, r.overflow)

\* case "DAA"
executeDAA(d) ==
    LET r == bcdConversion(d[registerA], registersRead1(d, flags.N),
                           registersRead1(d, flags.H), registersRead1(d, flags.C))
    IN  registersWrite1(registersWrite1(registersWrite1(
            [d EXCEPT ![registerA] = r.vOut],
            flags.Z, r.vOut = 0), flags.H, FALSE), flags.C, r.carryOut)

\* The stack pointers the tests load: every low byte, in the first and the
\* last page of the address space
AluPointers == {256 * h + l : h \in {\h00, \hFF}, l \in 0 .. 255}

\* F as the tests leave it before the instruction: no flag set, every flag set
AluFlags == {\h00, \hF0}

\* The packed BCD bytes: each nibble at most 9
AluDecimals == {16 * t + u : t \in 0 .. 9, u \in 0 .. 9}

aluAtRest == <<cpu, ram, interrupt, joypad, frames, run, ctx, host, timer, serial,
               video, rom, memory>>

\* The registers of a new CPU as a test loads them, and the instruction to run
AluLoaded(op, d, operand) ==
    /\ regs = d
    /\ obs = [op |-> op, d |-> d, operand |-> operand, done |-> FALSE]

\* SP and F are loaded for 0xF8 r8 and 0xE8 r8, a register and F for INC r and
\* DEC r, A and F for ADD A,d8 followed by DAA.
AluInit ==
    /\ Idle
    /\ cpu = PostBoot.cpu
    /\ ram = PostBoot.ram
    /\ interrupt = PostBoot.interrupt
    /\ timer = newTimerController
    /\ serial = newSerialController
    /\ video = newVideoController
    /\ rom = newROM
    /\ memory = newMemory
    /\ \/ \E op \in {"LDSP", "ADDSP"}, sp \in AluPointers, f \in AluFlags, b \in 0 .. 255 :
            AluLoaded(op, [registersWrite16(registersData, registerSP, sp)
                              EXCEPT ![0] = f], b)
       \/ \E op \in {"INC8", "DEC8"}, register \in {registerA, registerB},
             v \in 0 .. 255, f \in AluFlags :
            AluLoaded(op, [registersData EXCEPT ![register] = v, ![0] = f], register)
       \/ \E a \in AluDecimals, b \in AluDecimals, f \in AluFlags :
            AluLoaded("ADD8", [registersData EXCEPT ![registerA] = a, ![0] = f], b)

\* 0xF8 r8 or 0xE8 r8
AluOffset ==
    /\ ~obs.done /\ obs.op \in {"LDSP", "ADDSP"}
    /\ regs' = IF obs.op = "LDSP" THEN executeLDSP(regs, obs.operand)
                                  ELSE executeADDSP(regs, obs.operand)
    /\ obs' = [obs EXCEPT !.done = TRUE]
    /\ UNCHANGED aluAtRest

\* INC r or DEC r
AluStep ==
    /\ ~obs.done /\ obs.op \in {"INC8", "DEC8"}
    /\ regs' = IF obs.op = "INC8" THEN executeINC8(regs, obs.operand)
                                  ELSE executeDEC8(regs, obs.operand)
    /\ obs' = [obs EXCEPT !.done = TRUE]
    /\ UNCHANGED aluAtRest

\* ADD A,d8
AluAdd ==
    /\ ~obs.done /\ obs.op = "ADD8"
    /\ regs' = executeADD8(regs, obs.operand)
    /\ obs' = [obs EXCEPT !.done = TRUE]
    /\ UNCHANGED aluAtRest

\* DAA, the instruction after the ADD
AluAdjust ==
    /\ obs.done /\ obs.op = "ADD8"
    /\ regs' = executeDAA(regs)
    /\ obs' = [obs EXCEPT !.op = "DAA"]
    /\ UNCHANGED aluAtRest

AluNext == AluOffset \/ AluStep \/ AluAdd \/ AluAdjust

AluSpec == AluInit /\ [][AluNext]_vars

(* The serial port with a program that writes SC at any time, also while a   *)
(* transfer is under way.  obs: the cycles since the write of SC that        *)
(* started the transfer under way, whether one is under way, and the writes  *)
(* made so far.                                                              *)

\* Number of writes to SC explored: a start, an abort, and a start again.
MaxSerialWrites == 3

\* What the program writes to SC
AbortWrites == {\h81, \h01, \h80, \h00}

\* The counts of transferTicks at which the program writes SC
AbortPoints == {0, 1, 500, 999}

AbortInit ==
    Alone(newTimerController, newSerialController, newVideoController, newROM,
          [n |-> 0, started |-> FALSE, writes |-> 0])

\* Write8(0xFF02, v): the write starts a transfer when it sets both the start
\* and the internal clock bit and SC did not hold both before.
AbortWrite ==
    /\ obs.writes < MaxSerialWrites
    /\ serial.transferTicks \in AbortPoints
    /\ \E v \in AbortWrites :
         LET under == readBitN(serial.SC, 0) /\ readBitN(serial.SC, 7)
             asked == readBitN(v, 0) /\ readBitN(v, 7)
         IN  /\ serial' = serialWrite8(serial, \hFF02, v)
             /\ obs' = [n |-> IF asked /\ ~under THEN 0 ELSE obs.n,
                        started |-> asked,
                        writes |-> obs.writes + 1]
    /\ UNCHANGED <<machineAtRest, timer, video, rom>>

\* Interrupt.ReadAndClear(), then Cycle()
AbortStep ==
    /\ serial' = serialCycle([serial EXCEPT !.Interrupt = FALSE])
    /\ obs' = [obs EXCEPT !.n = IF obs.started THEN @ + 1 ELSE @,
                          !.started = @ /\ ~serialCompletes(serial)]
    /\ UNCHANGED <<machineAtRest, timer, video, rom>>

AbortNext == AbortWrite \/ AbortStep

AbortSpec == AbortInit /\ [][AbortNext]_vars

(* The PPU with a program that writes and reads VRAM and OAM, scrolls, and   *)
(* switches the LCD off and on, in every mode.  obs: the last operation, its *)
(* address and byte, the cycles run, and nextCycle when the LCD was last     *)
(* switched off.                                                             *)

\* Number of PPU cycles explored from each starting point
MaxGateCycles == 3

\* The cycle the PPU is about to process when the program starts: in mode 2
\* before mode 3, in mode 3 before mode 0, in mode 0 before the next line,
\* on line 143 before line 144, and on line 153 before the next frame.
GatePositions ==
    {1, 79, 247, 455, 144 * cyclesPerLine - 1, linesPerFrame * cyclesPerLine - 1}

\* The bytes of VRAM and OAM the program writes and reads
GateCells == {\h8000, \hFE00}

GateInit ==
    \E n \in GatePositions :
        Alone(newTimerController, newSerialController, videoAt(PostBoot.video, n),
              newROM, [op |-> "new", address |-> 0, v |-> 0, n |-> 0, at |-> -1])

\* Write8 to VRAM or OAM
GateWrite ==
    /\ \E address \in GateCells :
         /\ video' = videoWrite8(video, address, \hA5 - videoRead8(video, address))
         /\ obs' = [obs EXCEPT !.op = "write", !.address = address,
                               !.v = \hA5 - videoRead8(video, address)]
    /\ UNCHANGED <<machineAtRest, timer, serial, rom>>

\* Read8 of VRAM or OAM
GateRead ==
    /\ \E address \in GateCells :
         obs' = [obs EXCEPT !.op = "read", !.address = address,
                            !.v = videoRead8(video, address)]
    /\ UNCHANGED <<machineAtRest, timer, serial, video, rom>>

\* Write8 to SCY
GateScroll ==
    /\ video' = videoWrite8(video, \hFF42, 8 - video.SCY)
    /\ obs' = [obs EXCEPT !.op = "scroll", !.address = \hFF42, !.v = 8 - video.SCY]
    /\ UNCHANGED <<machineAtRest, timer, serial, rom>>

\* Write8 to LCDC that clears or sets bit 7
GateSwitch ==
    /\ LET v == IF readBitN(video.LCDC, 7) THEN \h11 ELSE \h91
       IN  /\ video' = videoWrite8(video, \hFF40, v)
           /\ obs' = [obs EXCEPT !.op = "switch", !.address = \hFF40, !.v = v,
                                 !.at = IF readBitN(video.LCDC, 7)
                                          THEN video.nextCycle ELSE @]
    /\ UNCHANGED <<machineAtRest, timer, serial, rom>>

\* Cycle(), and the pixel it draws
GateCycle ==
    /\ obs.n < MaxGateCycles
    /\ video' = videoCycle(video)
    /\ frames' = IF drawsOrigin(video)
                   THEN [frames EXCEPT ![video.Frame] = calculateShade(video)]
                   ELSE frames
    /\ obs' = [obs EXCEPT !.op = "cycle", !.n = @ + 1]
    /\ UNCHANGED <<cpu, regs, ram, interrupt, joypad, memory, run, ctx, host,
                   timer, serial, rom>>

GateNext == GateWrite \/ GateRead \/ GateScroll \/ GateSwitch \/ GateCycle

GateSpec == GateInit /\ [][GateNext]_vars

(* The sprites on their own: calculateSpriteShade for one pixel of a table   *)
(* of sprites.  video here is what the lookup reads: LCDC, the two sprite    *)
(* palettes, oam (all 160 bytes) and the tile data it can reach.  obs: the   *)
(* pixel asked for, what the search loop matched, and the shade and priority *)
(* returned.                                                                 *)

offsetOAM == \hFE00
transparrent == 255
shadePriorityHidden == 0
shadePrioritySpriteLow == 2
shadePrioritySpriteHigh == 4

\* readBitN on a byte for any uint8 offset: 1 << offset is 0 in a byte past 7
readBitNAt(b, offset) == offset <= 7 /\ readBitN(b, offset)

\* lookupTile in 8000 addressing
lookupTile(s, tileY, tileX, tileNumber) ==
    LET tileAddress == \h8000 + 16 * tileNumber
        rowAddress == offsetAddress(tileAddress, 2 * tileY)
        lowerBit == readBitNAt(s.vram[rowAddress], U8(7 - tileX))
        higherBit == readBitNAt(s.vram[rowAddress + 1], U8(7 - tileX))
    IN  (IF lowerBit THEN 1 ELSE 0) + (IF higherBit THEN 2 ELSE 0)

spriteHeightOf(s) == IF readBitN(s.LCDC, 2) THEN 16 ELSE 8

\* The body of the search loop for one sprite
spriteVisit(s, line, dot, spriteIdx, acc) ==
    LET offset == spriteIdx * 4
        y == s.oam[offsetOAM + offset] - 16
        x == s.oam[offsetOAM + offset + 1] - 8
    IN  IF acc.spritesFoundOnLine >= 10 THEN acc
        ELSE IF ~(y <= line /\ line <= y + spriteHeightOf(s)) THEN acc
        ELSE IF ~(x <= dot /\ dot <= x + 8)
          THEN [acc EXCEPT !.spritesFoundOnLine = @ + 1]
        ELSE IF acc.match /\ acc.matchX < x
          THEN [acc EXCEPT !.spritesFoundOnLine = @ + 1]
        ELSE [spritesFoundOnLine |-> acc.spritesFoundOnLine + 1,
              match |-> TRUE, matchY |-> y, matchX |-> x,
              matchTileNumber |-> s.oam[offsetOAM + offset + 2],
              matchAttributes |-> s.oam[offsetOAM + offset + 3]]

\* for spriteIdx := 0; spriteIdx < 40; spriteIdx++
RECURSIVE spriteSearch(_, _, _, _, _)
spriteSearch(s, line, dot, spriteIdx, acc) ==
    IF spriteIdx >= 40 THEN acc
    ELSE spriteSearch(s, line, dot, spriteIdx + 1, spriteVisit(s, line, dot, spriteIdx, acc))

\* calculateSpriteShade: [shade, priority], and what the loop matched
calculateSpriteShade(s, line, dot) ==
    LET none == [spritesFoundOnLine |-> 0, match |-> FALSE, matchY |-> 0, matchX |-> 0,
                 matchTileNumber |-> 0, matchAttributes |-> 0]
        found == spriteSearch(s, line, dot, 0, none)
        spriteHeight == spriteHeightOf(s)
        y0 == U8(line - found.matchY)
        x0 == U8(dot - found.matchX)
        y1 == IF readBitN(found.matchAttributes, 6) THEN U8(spriteHeight - y0) ELSE y0
        tileX == IF readBitN(found.matchAttributes, 5) THEN U8(8 - x0) ELSE x0
        tileNumber == IF spriteHeight # 16 THEN found.matchTileNumber
                      ELSE IF y1 <= 7 THEN And8(found.matchTileNumber, \hFE)
                      ELSE Or8(found.matchTileNumber, \h01)
        tileY == IF spriteHeight = 16 /\ y1 > 7 THEN y1 - 8 ELSE y1
        colorNum == lookupTile(s, tileY, tileX, tileNumber)
        shadePlatter == IF readBitN(found.matchAttributes, 4) THEN s.OBP1 ELSE s.OBP0
        hidden == [shade |-> transparrent, priority |-> shadePriorityHidden]
    IN  IF ~readBitN(s.LCDC, 1) THEN [found |-> none] @@ hidden
        ELSE IF ~found.match THEN [found |-> found] @@ hidden
        ELSE IF colorNum = 0 THEN [found |-> found] @@ hidden
        ELSE [found |-> found,
              shade |-> lookupShadeInPlatter(shadePlatter, colorNum),
              priority |-> IF readBitN(found.matchAttributes, 7)
                             THEN shadePrioritySpriteLow ELSE shadePrioritySpriteHigh]

\* The tables: k sprites at column xa with tile 0, then one at column xb with
\* tile 2, all on row 10 with no attribute set; the other entries are zero.
SpriteCounts == {0, 1, 9, 10, 11}
SpriteColumns == {16, 20, 24}

spriteTable(k, xa, xb) ==
    [a \in offsetOAM .. offsetOAM + 159 |->
        LET spriteIdx == (a - offsetOAM) \div 4
            byte == (a - offsetOAM) % 4
        IN  IF spriteIdx > k \/ byte = 3 THEN 0
            ELSE IF byte = 0 THEN 10 + 16
            ELSE IF byte = 1 THEN (IF spriteIdx < k THEN xa ELSE xb) + 8
            ELSE IF spriteIdx < k THEN 0 ELSE 2]

\* Tile data: every pixel of tiles 0 and 1 has colour 1, of tiles 2 and 3
\* colour 2, of tile 4 colour 3.
spriteTiles ==
    [a \in \h8000 .. \h804F |->
        LET tile == (a - \h8000) \div 16
            high == (a - \h8000) % 2 = 1
        IN  IF tile <= 1 THEN (IF high THEN \h00 ELSE \hFF)
            ELSE IF tile <= 3 THEN (IF high THEN \hFF ELSE \h00)
            ELSE \hFF]

\* The pixels asked for: around the rows and the columns of the sprites
SpriteLines == {9, 10, 17, 18, 19, 25, 26, 27}
SpriteDots == {15, 16, 20, 23, 24, 27, 28, 31, 32, 33}

spriteAtRest == <<cpu, regs, ram, interrupt, joypad, frames, run, ctx, host, timer,
                  serial, rom, memory>>

SpriteInit ==
    /\ Idle
    /\ cpu = PostBoot.cpu
    /\ regs = PostBoot.regs
    /\ ram = PostBoot.ram
    /\ interrupt = PostBoot.interrupt
    /\ timer = newTimerController
    /\ serial = newSerialController
    /\ rom = newROM
    /\ memory = newMemory
    /\ \E k \in SpriteCounts, xa \in SpriteColumns, xb \in SpriteColumns,
          lcdc \in {\h93, \h97, \h91} :
         video = [LCDC |-> lcdc, OBP0 |-> \hE4, OBP1 |-> \hE4,
                  oam |-> spriteTable(k, xa, xb), vram |-> spriteTiles]
    /\ \E line \in SpriteLines, dot \in SpriteDots :
         obs = [line |-> line, dot |-> dot, done |-> FALSE,
                found |-> [match |-> FALSE], shade |-> 0, priority |-> 0]

\* calculateSpriteShade(line, dot)
SpriteLookup ==
    /\ ~obs.done
    /\ obs' = [line |-> obs.line, dot |-> obs.dot, done |-> TRUE]
                @@ calculateSpriteShade(video, obs.line, obs.dot)
    /\ UNCHANGED <<spriteAtRest, video>>

SpriteSpec == SpriteInit /\ [][SpriteLookup]_vars

----------------------------------------------------------------------------
(* Properties *)

\* The loop body of the current tick has run to its end.
TickEnded == obs.tick > 0 /\ run.pc \in {"top", "throttle", "send", "returned"}

IF_ == interrupt.interruptFlag

\* C1: a request the Timer or the Serial controller raises in its step of a
\* tick is in IF (bit 2, bit 3) when that tick ends, and the controller's
\* pending flag is clear again.
C1_TimerSerialRequestsReachIF ==
    TickEnded =>
        /\ "timer" \in obs.raised => readBitN(IF_, 2) /\ ~timer.Interrupt
        /\ "serial" \in obs.raised => readBitN(IF_, 3) /\ ~serial.Interrupt

C1_Witness ==
    /\ TickEnded
    /\ obs.raised = {"timer", "serial"}
    /\ IF_ = \h0C

\* C2: the sources of the PPU being registered at offsets 0 and 1, the tick in
\* which the PPU processes line 144, dot 0 ends with IF bit 0 set, and a tick
\* in which the PPU requests LCDStat ends with IF bit 1 set.
C2_VideoRequestsReachIF ==
    TickEnded =>
        /\ "vblank" \in obs.raised => readBitN(IF_, 0)
        /\ "lcdstat" \in obs.raised => readBitN(IF_, 1)

\* The PPU has entered VBlank in this tick and the tick has ended.
C2_Witness == TickEnded /\ "vblank" \in obs.raised

\* A call of cpu.Cycle
CpuStep == CpuWait \/ CpuInterrupt \/ CpuFetch

\* The sources 0..4 that are both enabled in IE and pending in IF.
Deliverable ==
    {i \in 0 .. 4 : readBitN(interrupt.interruptEnabled, i) /\ readBitN(IF_, i)}

\* What a CPU step that services an interrupt does, but for the stack's content.
ServiceEffect ==
    /\ obs'.fetches = obs.fetches
    /\ cpu'.Interrupts = interruptsDisabled
    /\ \E i \in Deliverable : cpu'.ProgramCounter = \h0040 + 8 * i
    /\ regs'.SP = U16(regs.SP - 2)
    /\ run'.cpuIdleCycles = 5 - 1
    /\ obs'.nextCpuTick = obs.tick + 5

\* C3 as stated: a CPU step that services interrupt i fetches no opcode,
\* leaves IME Disabled, PC = 0x0040 + 8i, SP lowered by 2, the word at the new
\* SP equal to the PC before the step, and reports 5 cycles.
C3_ServiceStep ==
    [][CpuInterrupt =>
          /\ ServiceEffect
          /\ Read16(Machine', regs'.SP) = cpu.ProgramCounter]_vars

\* C3 amended: the same, the word at the new SP being the old PC when the two
\* bytes below SP are RAM of the bus (here high RAM); a push into VRAM while the
\* PPU draws is dropped by videoController.Write8.
C3_ServiceStepStackInRAM ==
    [][CpuInterrupt =>
          /\ ServiceEffect
          /\ {U16(regs.SP - 2), U16(regs.SP - 1)} \subseteq HramCells
                => Read16(Machine', regs'.SP) = cpu.ProgramCounter]_vars

\* An interrupt has just been serviced from PC 0x0100 with the stack in high
\* RAM: the Timer's, the lowest of IE & IF = 0x04.
C3_Witness ==
    /\ run.pc = "video" /\ obs.kind = "interrupt" /\ obs.tick = 1
    /\ cpu.ProgramCounter = \h0050
    /\ regs.SP = \hFFFC /\ ram[\hFFFC] = \h00 /\ ram[\hFFFD] = \h01

\* C4: with IME Enabled and bits of IE & IF among 0..4 set, the CPU step
\* services the lowest of them and the dispatch clears exactly that bit of IF,
\* the other bits of IF and IE unchanged; otherwise the step services nothing
\* and the dispatch leaves IF as it is.  The registers after the whole step
\* are those the dispatch left unless the push of the PC lands on them.
C4_LowestIndexServiced ==
    [][CpuStep =>
          LET lowest == CHOOSE i \in Deliverable : \A j \in Deliverable : i <= j
              r == readAndClearInterrupt(Machine)
          IN  IF cpu.Interrupts = interruptsEnabled /\ Deliverable # {}
                THEN /\ obs'.kind = "interrupt"
                     /\ cpu'.ProgramCounter = interruptAddresses[lowest + 1]
                     /\ r.ok
                     /\ r.m.interrupt = [interruptFlag |-> IF_ - 2 ^ lowest,
                                         interruptEnabled |-> interrupt.interruptEnabled]
                     /\ {U16(regs.SP - 2), U16(regs.SP - 1)} \cap InterruptRegs = {}
                            => interrupt' = r.m.interrupt
                ELSE /\ obs'.kind # "interrupt"
                     /\ ~r.ok
                     /\ r.m = Machine]_vars

\* Sources 0 and 2 were deliverable (IE = 0x1F, IF = 0x05) and VBlank, the
\* lowest, has been serviced: IF is left with bit 2.
C4_Witness ==
    /\ run.pc = "video" /\ obs.kind = "interrupt" /\ obs.tick = 1
    /\ cpu.ProgramCounter = \h0040
    /\ IF_ = \h04 /\ interrupt.interruptEnabled = \h1F

\* obs.eiPhase is 1 after the step that executed EI with IME Disabled, 2 after
\* the step that executed the instruction following it, 3 after an interrupt
\* serviced by the step after that.

\* C5 as stated: after EI executed with IME Disabled the next CPU step
\* executes the following instruction, whatever it is, and if an enabled
\* interrupt is pending then, the CPU step after it services the interrupt.
C5_EnableAfterNextInstruction ==
    [][/\ CpuStep /\ obs.eiPhase = 1 => obs'.kind = "fetch"
       /\ CpuStep /\ obs.eiPhase = 2 /\ Deliverable # {} => obs'.kind = "interrupt"]_vars

\* C5 amended: the same, unless the following instruction is DI, which leaves
\* IME Disabled, or EI, which starts the delay again.
C5_EnableAfterNextUnlessDIorEI ==
    [][/\ CpuStep /\ obs.eiPhase = 1 => obs'.kind = "fetch"
       /\ CpuStep /\ obs.eiPhase = 2 /\ Deliverable # {} /\ obs.last \notin {"DI", "EI"}
            => obs'.kind = "interrupt"]_vars

\* EI, then a taken CALL C, then the service of the pending interrupt.
C5_Witness ==
    /\ obs.eiPhase = 3 /\ obs.last = "CALL" /\ obs.kind = "interrupt"
    /\ cpu.ProgramCounter = \h0040 /\ regs.SP = \hFFFA

\* obs.seq is 3 when the last three CPU steps executed EI, NOP and DI.

\* C6: after EI; NOP; DI, from whatever IME, IE and IF, IME is Disabled when
\* the CPU enters the instruction following DI.  With an enabled interrupt
\* pending the CPU services it between NOP and DI and executes DI on return, so
\* the property is stated of every step that executed DI.
C6_DisabledAfterEINopDI ==
    obs.kind = "fetch" /\ obs.last = "DI" => cpu.Interrupts = interruptsDisabled

\* The CPU is about to step after EI; NOP; DI executed in three steps in a row,
\* entered from the service of an interrupt.
C6_Witness ==
    /\ obs.seq = 3 /\ obs.last = "DI" /\ run.pc = "cpu" /\ run.cpuIdleCycles = 0
    /\ obs.tick = 9

\* C7: once ctx is cancelled Run returns, also when it is blocked on the 60 Hz
\* throttle or on the send of a frame nobody receives, and no tick begins
\* after the cancellation: the only tick that runs after the signal is the one
\* in progress.  A run that left the model at a CPU step is not judged.
C7_CancelReturns ==
    /\ ctx.done ~> run.pc \in {"returned", "unmodelled"}
    /\ [](ctx.done => obs.tick = ctx.seen)

\* Run has returned from the send of a frame, cancelled while no consumer
\* received, with the throttle on.
C7_Witness ==
    /\ ctx.done /\ run.pc = "returned" /\ run.Speed > 0
    /\ video.FrameReady /\ host.frame = 0

\* C8: a frame the consumer has received is not changed by a later PPU cycle.
\* host.shade is the origin pixel of the frame as the consumer received it.
C8_DeliveredFrameImmutable ==
    host.frame # 0 => frames[host.frame] = host.shade

\* The PPU has drawn the origin pixel of line 0 while the consumer holds the
\* frame of the last VBlank.
C8_Witness ==
    /\ host.frame = video.Frame
    /\ video.nextCycle = 81 /\ obs.tick = 2 /\ run.pc = "timer"

\* C9: every tick steps Video, Timer and Serial once each, and the CPU starts
\* a step only when the cycles of its last step are used up: after a step at
\* tick t that returned n, the next step is at tick t + n and the ticks between
\* are idle.  obs.nextCpuTick is t + n.
C9_OneStepPerTick ==
    /\ [](TickEnded => /\ obs.stepped.video = obs.tick
                       /\ obs.stepped.timer = obs.tick
                       /\ obs.stepped.serial = obs.tick)
    /\ [][CpuStep => obs.tick = obs.nextCpuTick /\ obs'.nextCpuTick > obs.tick]_vars
    /\ [][CpuIdle => obs.tick < obs.nextCpuTick]_vars

\* The step after the five cycles of an interrupt service: a fetch at tick 6.
C9_Witness ==
    /\ run.pc = "video" /\ obs.kind = "fetch" /\ obs.fetches = 1
    /\ obs.tick = 6 /\ obs.stepped.video = 5

\* obs.wrote and obs.value are the register and the byte the CPU step of the
\* current tick stored, obs.old the registers as the tick began.

\* C10 as stated: the Video, Timer and Serial step of the tick in which the
\* CPU step wrote LCDC, TAC or SC still act on the old value: the PPU advances,
\* the timer counts, the transfer counts exactly if the old value said so.
C10_WriteSeenNextTick ==
    [][/\ VideoCycle /\ obs.wrote = \hFF40
            => (video'.nextCycle # video.nextCycle) = readBitN(obs.old.LCDC, 7)
       /\ TimerCycle /\ obs.wrote = \hFF07
            => (timer'.incrementalTimer # timer.incrementalTimer)
                    = readBitN(obs.old.TAC, 2)
       /\ SerialCycle /\ obs.wrote = \hFF02
            => (serial'.transferTicks # serial.transferTicks)
                    = (readBitN(obs.old.SC, 0) /\ readBitN(obs.old.SC, 7))]_vars

\* C10 amended: they act on the value just written, in the same tick.
C10_WriteSeenSameTick ==
    [][/\ VideoCycle /\ obs.wrote = \hFF40
            => (video'.nextCycle # video.nextCycle) = readBitN(obs.value, 7)
       /\ TimerCycle /\ obs.wrote = \hFF07
            => (timer'.incrementalTimer # timer.incrementalTimer)
                    = readBitN(obs.value, 2)
       /\ SerialCycle /\ obs.wrote = \hFF02
            => (serial'.transferTicks # serial.transferTicks)
                    = (readBitN(obs.value, 0) /\ readBitN(obs.value, 7))]_vars

\* The CPU step of this tick stored 0x81 to SC, which held 0, and the Serial
\* step of the same tick has counted the first cycle of the transfer.
C10_Witness ==
    /\ run.pc = "check" /\ obs.wrote = \hFF02 /\ obs.old.SC = 0
    /\ serial.SC = \h81 /\ serial.transferTicks = 1

\* C19: a read in 0x4000..0x7FFF with effective bank b selected returns
\* data[0x4000 * b + (address - 0x4000)].
C19_BankedReadIndex ==
    obs.address \in \h4000 .. \h7FFF =>
        obs.index = \h4000 * obs.bank + (obs.address - \h4000)

\* Bank 4 is selected and the read of 0x4000 returns data[0].
C19_Witness ==
    /\ obs.address = \h4000
    /\ obs.bank = 4
    /\ romBankNumber(rom) = 4
    /\ obs.index = 0

\* C20: after any bank-select writes the effective ROM bank is bank_rom_low
\* (the low 5 bits last written to 0x2000..0x3FFF), or 1 if that is 0, plus
\* bank_rom_high_or_ram (the low 2 bits last written to 0x4000..0x5FFF) << 5
\* when banking_mode (bit 0 last written to 0x6000..0x7FFF) is false; it is in
\* 1..0x7F and never 0x00, 0x20, 0x40 or 0x60.
C20_EffectiveBank ==
    LET low == obs.low % 32
        high == obs.high % 4
        mode == obs.mode % 2 = 1
        bank == (IF low = 0 THEN 1 ELSE low) + (IF mode THEN 0 ELSE 32 * high)
    IN  /\ rom = [bankROMLow |-> low, bankROMHighRAM |-> high, bankRAMMode |-> mode]
        /\ romBankNumber(rom) = bank
        /\ romBankNumber(rom) \in 1 .. \h7F
        /\ romBankNumber(rom) \notin {\h00, \h20, \h40, \h60}

\* 0x20 was written to the low register and 0xFF to the high one: bank 0x61.
C20_Witness ==
    /\ obs.low = \h20
    /\ obs.high = \hFF
    /\ obs.mode = 2
    /\ romBankNumber(rom) = \h61

\* C11: in every state reached from the constructed controller by PPU cycles
\* and writes to LCDC, STAT and LYC, the mode in STAT bits 1..0 and the gates
\* agree: mode 3 has VRAM and OAM locked, modes 0 and 1 have both accessible,
\* mode 2 has VRAM accessible and OAM locked.
C11_GatesAgreeWithMode ==
    LET mode == video.STAT % 4
    IN  /\ mode = 3 => ~video.vramAccessible /\ ~video.oamAccessible
        /\ mode \in {0, 1} => video.vramAccessible /\ video.oamAccessible
        /\ mode = 2 => video.vramAccessible /\ ~video.oamAccessible

\* The LCD was switched off in mode 3 and 0x78 written to STAT.
C11_Witness ==
    /\ ~readBitN(video.LCDC, 7)
    /\ video.STAT = \h7F
    /\ ~video.vramAccessible /\ ~video.oamAccessible

\* C12: while the LCD stays enabled LY is at most 153, each cycle leaves it or
\* advances it to the next of 0, 1, ..., 153, 0; a value is replaced after
\* exactly 456 consecutive cycles have written it, and LY becomes 0 again
\* exactly 70224 cycles after it last became 0.
C12_LineCounter ==
    /\ [](video.LY <= 153 /\ obs.held <= 456)
    /\ [][FrameCycle =>
            /\ video'.LY \in {video.LY, (video.LY + 1) % 154}
            /\ video'.LY # video.LY => obs.held = 456
            /\ obs.held = 456 => video'.LY # video.LY
            /\ video'.LY = 0 /\ video.LY # 0 => obs'.n - obs.zeroAt = 70224]_vars

\* LY has become 0 for the second time.
C12_Witness ==
    /\ obs.n = 70225
    /\ obs.zeroAt = 70225
    /\ obs.held = 1
    /\ video.LY = 0

\* C13: after exactly n cycles of a PPU enabled with LCDC = 0x80 from its
\* constructed state, LY reads floor(n / 456) mod 154; so 1 after 456 cycles
\* and 0 after 456 * 154.
C13_LineAfterCycles ==
    video.LCDC = \h80 => video.LY = (obs.n \div 456) % 154

\* 456 cycles after the LCD was enabled LY still reads 0.
C13_Witness ==
    /\ video.LCDC = \h80
    /\ obs.n = 456
    /\ video.LY = 0

\* C14: the PPU enters mode 2 at dot 0 and mode 0 at dot 248 of lines 0..143,
\* and mode 1 at line 144, dot 0.  A cycle raises the LCDStat request for a
\* mode exactly when it enters mode 2, 0 or 1 with STAT bit 5, 3 or 4 set;
\* the cycle at line 144, dot 0 raises the VBlank request and sets FrameReady
\* whatever STAT is, and no other cycle does.
C14_RequestsAtModeEntry ==
    [][FrameCycle =>
          LET line == video.nextCycle \div 456
              dot == video.nextCycle % 456
              enters2 == line <= 143 /\ dot = 0
              enters3 == line <= 143 /\ dot = 80
              enters0 == line <= 143 /\ dot = 248
              enters1 == line = 144 /\ dot = 0
              forMode == \/ enters2 /\ readBitN(video.STAT, 5)
                         \/ enters0 /\ readBitN(video.STAT, 3)
                         \/ enters1 /\ readBitN(video.STAT, 4)
              forLine == readBitN(video.STAT, 6) /\ video.LYC = line
          IN  /\ enters2 => video'.STAT % 4 = 2
              /\ enters0 => video'.STAT % 4 = 0
              /\ enters1 => video'.STAT % 4 = 1
              /\ video'.STAT % 4 # video.STAT % 4
                    => enters2 \/ enters3 \/ enters0 \/ enters1
              /\ forMode => video'.InterruptLCDCStatus
              /\ video'.InterruptLCDCStatus => forMode \/ forLine
              /\ video'.InterruptVBlank <=> enters1
              /\ video'.FrameReady <=> enters1]_vars

\* The cycle at line 144, dot 0 has run with only STAT bit 4 set.
C14_Witness ==
    /\ video.nextCycle = 144 * 456 + 1
    /\ video.STAT = \h11
    /\ video.InterruptLCDCStatus
    /\ video.InterruptVBlank
    /\ video.FrameReady

\* C15: with STAT bit 6 set and no mode request enabled, a cycle raises the
\* LCDStat request for LY == LYC only on a rising edge: not when the
\* comparison was already true in the cycle before (STAT bit 2 holds it).
C15_LineCompareRisingEdge ==
    [][FrameCycle /\ video.STAT \div 8 = 8 /\ obs.n > 0 /\ readBitN(video.STAT, 2)
          => ~video'.InterruptLCDCStatus]_vars

\* The second cycle of line 0 has raised the request again, LYC being 0.
C15_Witness ==
    /\ obs.n = 2
    /\ video.LYC = 0 /\ video.LY = 0
    /\ video.STAT = \h46
    /\ video.InterruptLCDCStatus

\* C16: after a write to TAC that enables the timer with clock select s, TIMA
\* being v and no write to TIMA, TMA or TAC following, the Timer request is
\* first raised in the ((256 - v) * P)-th Timer cycle after the write, where
\* P is 256, 4, 16, 64 for s = 0, 1, 2, 3, and TIMA equals TMA when that
\* cycle ends.
C16_FirstTimerRequest ==
    LET s == timer.TAC % 4
        P == CASE s = 0 -> 256 [] s = 1 -> 4 [] s = 2 -> 16 [] s = 3 -> 64
        due == (256 - obs.start) * P
    IN  obs.sinceTac >= 0 /\ readBitN(timer.TAC, 2) =>
            /\ obs.sinceTac < due => obs.fired = 0
            /\ obs.sinceTac \in 1 .. (due - 1) => ~timer.Interrupt
            /\ obs.sinceTac = due => timer.Interrupt /\ timer.TIMA = timer.TMA
            /\ obs.sinceTac >= due => obs.fired = due

\* TAC was rewritten with 0x05 at cycle 3 with TIMA = 0xFE and TMA = 0x20:
\* the request is raised in the 8th cycle after that write.
C16_Witness ==
    /\ timer.TAC = \h05 /\ obs.start = \hFE
    /\ obs.n = 11 /\ obs.sinceTac = 8
    /\ obs.fired = 8
    /\ timer.Interrupt /\ timer.TIMA = \h20 /\ timer.TMA = \h20

\* C17: after a write to DIV, DIV reads 0 after each of the next 255 Timer
\* cycles and 1 after the 256th.
C17_DividerRestarts ==
    /\ obs.sinceDiv \in 0 .. 255 => timer.DIV = 0
    /\ obs.sinceDiv = 256 => timer.DIV = 1

\* DIV was written at cycle 300, when it read 1, with the timer running.
C17_Witness ==
    /\ obs.n = 556 /\ obs.sinceDiv = 256
    /\ readBitN(timer.TAC, 2)
    /\ timer.DIV = 1

\* C18: after SC is written with the start and internal clock bits set (0x81)
\* while SB holds b, none of the first 999 Serial cycles raises the request or
\* calls the callback; the 1000th calls it once with b, sets SB to 0xFF,
\* clears bit 7 of SC only and raises the request; no later cycle completes
\* again while SC is not written.
C18_TransferTakes1000Cycles ==
    obs.started /\ readBitN(obs.sc, 0) /\ readBitN(obs.sc, 7) =>
        /\ obs.n < 1000 => /\ obs.calls = <<>>
                           /\ serial.SB = obs.b
                           /\ serial.SC = obs.sc
        /\ obs.n \in 1 .. 999 => ~serial.Interrupt
        /\ obs.n = 1000 => serial.Interrupt
        /\ obs.n >= 1000 => /\ obs.calls = <<obs.b>>
                            /\ serial.SB = \hFF
                            /\ serial.SC = obs.sc - 128
        /\ obs.n > 1000 => ~serial.Interrupt

\* The 1000th cycle after 0x81 was written with 0x41 in SB.
C18_Witness ==
    /\ obs.started /\ obs.sc = \h81 /\ obs.b = \h41
    /\ obs.n = 1000
    /\ obs.calls = <<\h41>>
    /\ serial.SB = \hFF /\ serial.SC = \h01 /\ serial.Interrupt

(* C21: with no write to 0x0000..0x7FFF, a read of an address in             *)
(* 0x0000..0x3FFF returns the byte the cartridge image has at that address.  *)
C21_LowReadsReturnCartridge ==
    obs.address \in 0 .. \h3FFF /\ ~obs.banked
        => obs.value = data(memory.rom, obs.address)

(* C21 as it holds: with no write to 0x0000..0x7FFF, a read of an address in *)
(* 0x0000..0x3FFF returns the cartridge's byte at that address, unless the   *)
(* address is in 0x0000..0x00FF and a boot ROM is loaded and not yet         *)
(* unmapped.                                                                 *)
C21_LowReadsReturnCartridgeUnlessBoot ==
    /\ obs.address \in 0 .. \h3FFF
    /\ ~obs.banked
    /\ obs.address > \h00FF \/ ~obs.boot \/ obs.unmapped
    => obs.value = data(memory.rom, obs.address)

C21_Witness ==
    /\ obs.address = \h3FFF /\ ~obs.banked /\ obs.boot /\ ~obs.unmapped
    /\ obs.value = data(memory.rom, \h3FFF)

(* C22: while the boot ROM is mapped, reads of 0x0000..0x00FF return the     *)
(* boot ROM's bytes and reads of 0x0100..0x3FFF the cartridge's; once the    *)
(* program has written 0x01 to 0xFF50, reads of 0x0000..0x00FF return the    *)
(* cartridge's bytes and the boot ROM is not mapped again; a read of 0xFF50  *)
(* returns 0.                                                                *)
C22_BootOverlay ==
    /\ obs.boot /\ ~obs.unmapped =>
          /\ memory.IsBootROMLoaded
          /\ obs.address \in 0 .. \h00FF => obs.value = data(memory.bootROM, obs.address)
          /\ obs.address \in \h0100 .. \h3FFF => obs.value = data(memory.rom, obs.address)
    /\ obs.unmapped =>
          /\ ~memory.IsBootROMLoaded
          /\ obs.address \in 0 .. \h00FF => obs.value = data(memory.rom, obs.address)
    /\ obs.address = \hFF50 => obs.value = 0

C22_Witness ==
    /\ obs.boot /\ obs.unmapped /\ obs.address = \h00FF
    /\ obs.value = data(memory.rom, \h00FF)
    /\ obs.value # data(memory.bootROM, \h00FF)

(* C23: the low nibble of F is zero in every state, and after Write16 of v   *)
(* to AF, Read16 of AF is v with its low four bits cleared.                  *)
C23_LowNibbleOfFZero ==
    /\ regs[0] % 16 = 0
    /\ obs.op = "Write16" /\ obs.register = registerAF
          => registersRead16(regs, registerAF) = obs.v - (obs.v % 16)

C23_Witness ==
    /\ obs.op = "Write16" /\ obs.register = registerAF /\ obs.v = \h12AF
    /\ registersRead16(regs, registerAF) = \h12A0

(* C24: a push of x followed at once by a pop returns x and leaves SP as it  *)
(* was, whatever the state.                                                  *)
C24_PushPop ==
    obs.popped # -1 => obs.popped = obs.x /\ regs.SP = obs.sp

\* Does a byte written to the address read back: high RAM, IE, and VRAM
\* while the PPU does not lock it.
Stores(address) ==
    \/ address \in HramCells
    \/ address = \hFFFF
    \/ address \in VramCells /\ video.vramAccessible

(* C24 as it holds: a push of x followed at once by a pop leaves SP as it    *)
(* was, and returns x when both bytes of the push went to memory that stores *)
(* what is written to it.                                                    *)
C24_PushPopInRAM ==
    obs.popped # -1 =>
        /\ regs.SP = obs.sp
        /\ Stores(U16(obs.sp - 2)) /\ Stores(U16(obs.sp - 1)) => obs.popped = obs.x

C24_Witness ==
    /\ obs.popped = \h1234 /\ obs.x = \h1234 /\ obs.sp = \hA000 /\ regs.SP = \hA000
    /\ video.vramAccessible

(* C30: the shade of colour c under palette p is (p >> (2 * c)) & 3.         *)
C30_ShadeOfColour ==
    obs.colorNum # -1 => obs.shade = (obs.platter \div (4 ^ obs.colorNum)) % 4

C30_Witness == obs.platter = \h03 /\ obs.colorNum = 0 /\ obs.shade = 0

(* C25: when a boot ROM path is given and the boot ROM cannot be loaded (the *)
(* file is unreadable or is not 256 bytes long), Run returns an error and no *)
(* CPU instruction is executed.                                              *)
C25_BootLoadFailureReturnsError ==
    /\ run.pc \notin {"idle", "call"}
    /\ ~LoadROM(newMemory, run.path).err
    /\ run.bootPath # "" /\ LoadBootROM(newMemory, run.bootPath).err
    => run.pc = "failed" /\ obs.fetches = 0

\* Run was given a boot ROM one byte short, and the CPU has executed
\* instructions from address 0 of the cartridge.
C25_Witness ==
    /\ run.bootPath = "short.bin" /\ ~memory.IsBootROMLoaded
    /\ obs.fetches = 2 /\ run.pc = "top"

(* C26: when the CPU step meets an ILLEGAL opcode or a bus access to an      *)
(* address nothing owns, Run returns an error value, and no tick follows.    *)
C26_FaultReturnsError ==
    [][/\ obs'.kind = "fault" => run'.pc = "failed"
       /\ obs.kind = "fault" => ~TickStart /\ ~CpuStep]_vars

\* The CPU has fetched an opcode with no instruction, and Run has not returned.
C26_Witness == obs.kind = "fault" /\ obs.last = "ILLEGAL" /\ run.pc = "panicked"

\* After STOP no CPU step and no tick begins, and Run leaves the top of the
\* loop by returning nil.
StopEndsRun ==
    /\ ~cpu.PowerOn => ~CpuStep /\ ~TickStart /\ ~CpuPanic /\ cpu' = cpu
    /\ ~cpu.PowerOn /\ run.pc = "top" /\ run'.pc # "top" => run'.pc = "returned"
    /\ ~cpu'.PowerOn /\ TickEnded' =>
          obs'.stepped = [video |-> obs'.tick, timer |-> obs'.tick, serial |-> obs'.tick]

\* The requests raised in the tick that has ended are in IF.
Drained ==
    /\ "vblank" \in obs.raised => readBitN(IF_, 0) /\ ~video.InterruptVBlank
    /\ "lcdstat" \in obs.raised => readBitN(IF_, 1) /\ ~video.InterruptLCDCStatus
    /\ "timer" \in obs.raised => readBitN(IF_, 2) /\ ~timer.Interrupt
    /\ "serial" \in obs.raised => readBitN(IF_, 3) /\ ~serial.Interrupt

(* C27: after STOP no further CPU step is taken; the tick in which STOP      *)
(* executes is completed, each peripheral stepped once and the requests      *)
(* raised in it drained into IF; and Run returns without error.              *)
C27_StopCompletesTick ==
    [][/\ StopEndsRun
       /\ ~cpu'.PowerOn /\ TickEnded' => Drained']_vars

\* STOP has executed in the tick in which the PPU entered line 144, the tick
\* has ended, and IF bit 0 is clear.
C27_Witness ==
    /\ ~cpu.PowerOn /\ TickEnded /\ obs.last = "STOP" /\ obs.tick = 1
    /\ "vblank" \in obs.raised /\ ~readBitN(IF_, 0) /\ video.InterruptVBlank

(* C28: a CPU step in low power mode with IE & IF = 0 reports 1 cycle and    *)
(* changes neither PC, registers, IME nor memory; with IE & IF # 0 the step  *)
(* leaves low power mode whatever IME is, and when IME is not Enabled it     *)
(* executes the instruction after HALT, services nothing and clears no bit   *)
(* of IF.                                                                    *)
C28_HaltedSteps ==
    [][CpuStep /\ cpu.lowPowerMode =>
          IF And8(interrupt.interruptEnabled, IF_) = 0
            THEN /\ obs'.kind = "wait"
                 /\ obs'.nextCpuTick = obs.tick + 1
                 /\ run'.cpuIdleCycles = 0
                 /\ Machine' = Machine
          ELSE /\ obs'.kind # "wait"
               /\ obs'.last # "HALT" => ~cpu'.lowPowerMode
               /\ cpu.Interrupts # interruptsEnabled =>
                     /\ obs'.kind = "fetch"
                     /\ obs'.fetches = obs.fetches + 1
                     /\ obs'.last = "NOP" => cpu'.ProgramCounter = U16(cpu.ProgramCounter + 1)
                     /\ ~readAndClearInterrupt(Machine).ok
                     /\ interrupt'.interruptFlag = IF_]_vars

\* HALT was executed with IME Disabled and IE & IF = 0x05: the next step has
\* left low power mode and executed the instruction after HALT, IF is as it was.
C28_Witness ==
    /\ obs.woke /\ obs.kind = "fetch" /\ obs.last = "NOP" /\ obs.fetches = 2
    /\ cpu.Interrupts = interruptsDisabled /\ ~cpu.lowPowerMode
    /\ IF_ = \h05 /\ interrupt.interruptEnabled = \h1F
    /\ cpu.ProgramCounter = \h0102

(* C29: RETI sets PC to the word it pops, raises SP by 2, and leaves IME     *)
(* Enabled when the step ends, so that the next CPU step services an enabled *)
(* pending interrupt and fetches nothing.                                    *)
C29_RetiEnablesAtOnce ==
    [][/\ CpuFetch /\ obs'.last = "RETI" =>
             /\ cpu'.ProgramCounter = Read16(Machine, regs.SP)
             /\ regs'.SP = U16(regs.SP + 2)
             /\ cpu'.Interrupts = interruptsEnabled
       /\ CpuStep /\ obs.kind = "fetch" /\ obs.last = "RETI" /\ Deliverable # {} =>
             /\ obs'.kind = "interrupt"
             /\ obs'.fetches = obs.fetches]_vars

\* RETI has popped 0x1F00 with IME Disabled and IE & IF = 0x05, and the next
\* step has serviced VBlank and pushed the return address, nothing fetched.
C29_Witness ==
    /\ obs.kind = "interrupt" /\ obs.last = "RETI" /\ obs.fetches = 1
    /\ cpu.ProgramCounter = \h0040 /\ Read16(Machine, regs.SP) = \h1F00

----------------------------------------------------------------------------
(* C37: a CPU step that services an interrupt ends with the CPU not halted.  *)
(* A halted CPU with IME Enabled and an interrupt of 0..4 enabled and        *)
(* pending leaves low power mode and dispatches in one step, and the CPU     *)
(* step after a dispatch fetches the opcode at the handler's address.        *)
C37_ServiceLeavesHalt ==
    [][CpuStep =>
          /\ obs'.kind = "interrupt" => ~cpu'.lowPowerMode
          /\ cpu.lowPowerMode /\ cpu.Interrupts = interruptsEnabled /\ Deliverable # {} =>
                /\ obs'.kind = "interrupt"
                /\ obs'.fetches = obs.fetches
                /\ ~cpu'.lowPowerMode
                /\ \E i \in Deliverable : cpu'.ProgramCounter = interruptAddresses[i + 1]
          /\ obs.kind = "interrupt" =>
                /\ obs'.kind = "fetch"
                /\ obs'.fetches = obs.fetches + 1
                /\ \E i \in 0 .. 4 : cpu.ProgramCounter = interruptAddresses[i + 1]]_vars

\* The halted CPU has serviced the Timer's interrupt in one step: it is awake
\* at 0x0050 with the address it was halted at on the stack.
C37_Witness ==
    /\ obs.kind = "interrupt" /\ obs.woke /\ run.pc = "video"
    /\ ~cpu.lowPowerMode /\ cpu.Interrupts = interruptsDisabled
    /\ cpu.ProgramCounter = \h0050

----------------------------------------------------------------------------
(* C38: FrameReady is true when a tick has ended only if the PPU processed   *)
(* line 144, dot 0 in that tick, so that Run sends at most one frame in the  *)
(* 70224 cycles of a frame, whatever the program does to LCDC.               *)
C38_FrameReadyOnlyAtVBlank ==
    TickEnded /\ video.FrameReady => "vblank" \in obs.raised

\* The program has cleared LCDC bit 7 in the tick after the one of line 144,
\* dot 0: the PPU did nothing in this tick, FrameReady is as the tick before
\* left it, and Run is about to send the frame a second time.
C38_Witness ==
    /\ run.pc = "send" /\ obs.tick = 2
    /\ obs.wrote = \hFF40 /\ ~readBitN(video.LCDC, 7)
    /\ video.FrameReady /\ obs.raised = {}
    /\ video.nextCycle = 144 * cyclesPerLine + 1

----------------------------------------------------------------------------
(* C33: LDSP (HL <- SP + r8) and ADDSP (SP <- SP + r8), for the stack        *)
(* pointers and every offset byte u (r8 = u as a signed byte, -128..127),    *)
(* store (SP + r8) mod 65536 and leave Z = 0, N = 0,                         *)
(* H = ((SP & 0x0F) + (u & 0x0F)) > 0x0F and C = ((SP & 0xFF) + u) > 0xFF.   *)
C33_OffsetSum ==
    obs.done /\ obs.op \in {"LDSP", "ADDSP"} =>
        LET sp == registersRead16(obs.d, registerSP)
            u == obs.operand
            r8 == IF u > 127 THEN u - 256 ELSE u
            target == IF obs.op = "LDSP" THEN registerHL ELSE registerSP
        IN  /\ r8 \in -128 .. 127
            /\ registersRead16(regs, target) = (sp + r8) % 65536
            /\ ~registersRead1(regs, flags.Z)
            /\ ~registersRead1(regs, flags.N)
            /\ registersRead1(regs, flags.H) <=> (sp % 16) + (u % 16) > \h0F
            /\ registersRead1(regs, flags.C) <=> (sp % 256) + u > \hFF

\* ADD SP,-1 at SP = 0x0000 with every flag set before: SP wraps to 0xFFFF,
\* and the four flags are clear.
C33_Witness ==
    /\ obs.done /\ obs.op = "ADDSP" /\ obs.operand = \hFF /\ obs.d[0] = \hF0
    /\ registersRead16(obs.d, registerSP) = \h0000
    /\ registersRead16(regs, registerSP) = \hFFFF
    /\ regs[0] = \h00

(* C34: for packed BCD bytes a and b, ADD8 of a and b followed by DAA leaves *)
(* A the packed BCD of (dec(a) + dec(b)) mod 100, C set exactly when the sum *)
(* is 100 or more, Z set exactly when the result is 0, and H clear.          *)
C34_DecimalAdjust ==
    obs.op = "DAA" =>
        LET a == obs.d[registerA]
            b == obs.operand
            sum == 10 * (a \div 16) + (a % 16) + 10 * (b \div 16) + (b % 16)
            digits == sum % 100
        IN  /\ regs[registerA] = 16 * (digits \div 10) + (digits % 10)
            /\ registersRead1(regs, flags.C) <=> sum >= 100
            /\ registersRead1(regs, flags.Z) <=> digits = 0
            /\ ~registersRead1(regs, flags.H)

\* 0x99 + 0x01 adjusted: A = 0x00, Z and C set, N and H clear.
C34_Witness ==
    /\ obs.op = "DAA" /\ obs.d[registerA] = \h99 /\ obs.operand = \h01
    /\ regs[registerA] = \h00 /\ regs[0] = \h90

(* C35: INC8 stores (v + 1) mod 256 with Z = (result = 0), N = 0 and         *)
(* H = ((v & 0x0F) = 0x0F); DEC8 stores (v - 1) mod 256 with                 *)
(* Z = (result = 0), N = 1 and H = ((v & 0x0F) = 0); neither changes C.      *)
C35_IncDec ==
    obs.done /\ obs.op \in {"INC8", "DEC8"} =>
        LET v == obs.d[obs.operand]
            result == IF obs.op = "INC8" THEN (v + 1) % 256 ELSE (v - 1) % 256
        IN  /\ regs[obs.operand] = result
            /\ registersRead1(regs, flags.Z) <=> result = 0
            /\ registersRead1(regs, flags.N) <=> obs.op = "DEC8"
            /\ registersRead1(regs, flags.H) <=>
                  IF obs.op = "INC8" THEN v % 16 = \h0F ELSE v % 16 = 0
            /\ registersRead1(regs, flags.C) <=> registersRead1(obs.d, flags.C)

\* DEC B at B = 0x10 with F = 0xF0 before: B = 0x0F, Z clear, N, H set, C kept.
C35_Witness ==
    /\ obs.done /\ obs.op = "DEC8" /\ obs.operand = registerB
    /\ obs.d[registerB] = \h10 /\ obs.d[0] = \hF0
    /\ regs[registerB] = \h0F /\ regs[0] = \h70

(* C40: the cycle that requests the Serial interrupt is at least the 1000th  *)
(* since the write of SC that started the transfer it completes, also when   *)
(* an earlier transfer was aborted by a write clearing bit 7 or bit 0 of SC. *)
C40_RequestNotBefore1000 ==
    serial.Interrupt => obs.n >= serialTransferCycles

\* A transfer was started and aborted after 500 cycles, a second one was
\* started, and its 500th cycle has raised the request.
C40_Witness ==
    /\ serial.Interrupt /\ obs.n = 500 /\ obs.writes = 3
    /\ serial.SC = \h01 /\ serial.SB = \hFF

C39_DisabledStepsChangeNothing ==
    [][/\ GateCycle /\ ~readBitN(video.LCDC, 7) =>
             /\ video' = video
             /\ frames' = frames
             /\ video.nextCycle = obs.at
       /\ /\ GateWrite /\ ~readBitN(video.LCDC, 7)
          /\ IF isOAMAddress(obs'.address) THEN ~video.oamAccessible
                                           ELSE ~video.vramAccessible
          => video' = video
       /\ GateCycle /\ readBitN(video.LCDC, 7) /\ obs.op = "switch" =>
             /\ video'.LY = obs.at \div cyclesPerLine
             /\ video'.nextCycle = (obs.at + 1) % (cyclesPerLine * linesPerFrame)]_vars

\* The LCD was switched off in mode 3 at line 0, dot 80, three steps were
\* taken, and the PPU is as it was: in mode 3 with both regions locked, the
\* new scroll value not latched, a write to VRAM ignored.
C39_Witness ==
    /\ ~readBitN(video.LCDC, 7) /\ obs.at = 81 /\ video.nextCycle = 81
    /\ obs.op = "write" /\ obs.address = \h8000 /\ video.vram[\h8000] = \h00
    /\ obs.n = 3
    /\ video.STAT % 4 = 3 /\ video.LY = 0
    /\ ~video.vramAccessible /\ ~video.oamAccessible
    /\ video.SCY = 8 /\ video.screenY = 0

\* The sprite table as the statements on it read it: row, column and tile of
\* entry i, the entries that overlap the line asked for (y <= line < y + h),
\* the first ten of them in the order of the table, and those of the ten
\* whose columns [x, x + 8) contain the dot asked for.
entryY(i) == video.oam[offsetOAM + 4 * i] - 16
entryX(i) == video.oam[offsetOAM + 4 * i + 1] - 8
entryTile(i) == video.oam[offsetOAM + 4 * i + 2]
Overlapping ==
    {i \in 0 .. 39 : /\ entryY(i) <= obs.line
                     /\ obs.line < entryY(i) + (IF readBitN(video.LCDC, 2) THEN 16 ELSE 8)}
Considered == {i \in Overlapping : Cardinality({j \in Overlapping : j < i}) < 10}
Candidates == {i \in Considered : entryX(i) <= obs.dot /\ obs.dot < entryX(i) + 8}

(* C31: with sprites of height 8 or 16, an entry of OAM overlaps the line    *)
(* exactly when y <= line < y + h, and a pixel of the line comes only from   *)
(* one of the first 10 overlapping entries in the order of OAM.              *)
C31_FirstTenOverlapping ==
    obs.done /\ obs.priority # shadePriorityHidden =>
        \E i \in Considered :
            /\ obs.found.matchY = entryY(i)
            /\ obs.found.matchX = entryX(i)
            /\ obs.found.matchTileNumber = entryTile(i)

\* One sprite of height 8 on rows 10..17, columns 20..27: the lookup for line
\* 18, dot 20 returns a pixel of it (colour 2, read from the tile after its own).
C31_Witness ==
    /\ obs.done /\ obs.line = 18 /\ obs.dot = 20
    /\ video.LCDC = \h93
    /\ entryY(0) = 10 /\ entryX(0) = 20 /\ entryTile(0) = 2 /\ entryY(1) = -16
    /\ obs.priority = shadePrioritySpriteHigh /\ obs.shade = 2

(* C32: when some of the sprites considered on the line have the dot within  *)
(* their columns [x, x + 8), the one that supplies the pixel is the one with *)
(* the smallest x, and of those with the same x the one first in OAM.        *)
C32_SmallestXThenIndex ==
    obs.done /\ readBitN(video.LCDC, 1) /\ Candidates # {} =>
        LET best == CHOOSE i \in Candidates :
                        \A j \in Candidates :
                            entryX(i) < entryX(j) \/ (entryX(i) = entryX(j) /\ i <= j)
        IN  /\ obs.priority # shadePriorityHidden
            /\ obs.found.matchX = entryX(best)
            /\ obs.found.matchTileNumber = entryTile(best)

\* Entry 0 (tile 0) and entry 1 (tile 2) both on rows 10..17, columns 20..27:
\* the pixel of line 10, dot 20 comes from entry 1.
C32_Witness ==
    /\ obs.done /\ obs.line = 10 /\ obs.dot = 20
    /\ video.LCDC = \h93
    /\ entryX(0) = 20 /\ entryX(1) = 20 /\ entryTile(0) = 0 /\ entryTile(1) = 2
    /\ entryY(2) = -16
    /\ obs.found.matchTileNumber = 2 /\ obs.shade = 2

====
